---------------------------- MODULE Spec2Model ----------------------------
(* A model of the content indexing engine of                              *)
(* packages/@tinacms/graphql/src/database/index.ts: the Database class,    *)
(* its write path (put, addPendingDocument, delete) and its long-running  *)
(* operations (indexContent, indexContentByPaths, deleteContentByPaths)   *)
(* over a key-value store with sublevels and a file bridge.               *)
(*                                                                        *)
(* Strings are sequences of tokens: a path "posts/a.md" is                *)
(* <<"posts", "/", "a.md">>, so that normalizePath and the key codec act  *)
(* on their text.                                                         *)
EXTENDS Integers, Sequences, FiniteSets, TLC

VARIABLES
    bridge,       \* the bridge's files: path -> file contents
    level,        \* the key-value store: <<sublevel, key>> -> value
    pc,           \* the position of the single writer inside its handler
    cur,          \* the locals of the running handler
    operations,   \* the pending-op buffer of a long-running operation
    events,       \* what the running (or last) operation sent to indexStatusCallback
    last,         \* the last finished call: its name, arguments and outcome
    trail,        \* what the running (or last) call did to the store and the bridge
    notFoundThrows, \* whether the store's get of a missing key throws LEVEL_NOT_FOUND
    faults,       \* how many calls on the bridge, the store or the callback have rejected
    runs,         \* how many long-running operations have been started
    memo          \* the caches of the Database instance, each a list of at most one value

vars ==
    <<bridge, level, pc, cur, operations, events, last, trail, notFoundThrows, faults,
      runs, memo>>

None == "none"

-----------------------------------------------------------------------------
(* Bounds of the model.                                                   *)

\* how many document names exist under posts/ for the write path
NumPutDocs == 1
\* how many documents the bridge holds under posts/ for the long-running operations
NumPosts == 5
\* how many calls on the bridge, the store or the status callback reject in one behaviour
MaxFaults == 1
\* how many long-running operations one behaviour starts
MaxRuns == 2
\* how many posts the store of the queries holds
NumQueryDocs == 4
\* how many posts the stores of the full scans hold
NumScanDocs == 3

-----------------------------------------------------------------------------
(* Program constants.                                                     *)

\* the flush threshold of the pending-op buffer
BATCH_SIZE == 25
DEFAULT_NUMERIC_LPAD == 4

ROOT_PREFIX == "~"
DEFAULT_COLLECTION_SORT_KEY == "__filepath__"
INDEX_KEY_FIELD_SEPARATOR == "\\x1D"
SYSTEM_FILES == {<<"_schema">>, <<"_graphql">>, <<"_lookup">>}
GENERATED_FOLDER == <<".tina", "/", "__generated__">>

-----------------------------------------------------------------------------
(* Text.                                                                  *)

\* filepath.replace(/\\/g, '/')
normalizePath(filepath) ==
    [i \in 1..Len(filepath) |-> IF filepath[i] = "\\" THEN "/" ELSE filepath[i]]

\* path.join(GENERATED_FOLDER, name)
GeneratedPath(name) == normalizePath(GENERATED_FOLDER \o <<"/", name>>)

DigitTok == <<"0", "1", "2", "3", "4", "5", "6", "7", "8", "9">>

RECURSIVE NumberToString(_)
NumberToString(n) ==
    IF n < 10 THEN <<DigitTok[n + 1]>>
    ELSE NumberToString(n \div 10) \o <<DigitTok[(n % 10) + 1]>>

RECURSIVE padStart(_, _, _)
padStart(s, maxLength, fillString) ==
    IF Len(s) >= maxLength THEN s
    ELSE padStart(<<fillString>> \o s, maxLength, fillString)

RECURSIVE SeqToSet(_)
SeqToSet(s) == IF s = <<>> THEN {} ELSE {Head(s)} \cup SeqToSet(Tail(s))

RECURSIVE Flatten(_)
Flatten(ss) == IF ss = <<>> THEN <<>> ELSE Head(ss) \o Flatten(Tail(ss))

StartsWith(s, prefix) ==
    /\ Len(s) >= Len(prefix)
    /\ SubSeq(s, 1, Len(prefix)) = prefix

-----------------------------------------------------------------------------
(* The schema. posts has three indexable fields and one user-declared     *)
(* composite index; pages has one field; notes (markdown) and data (json) *)
(* each have a title and a body field.                                    *)

Undefined == "undefined"

PostsCollection ==
    [name |-> "posts", path |-> <<"posts">>, format |-> "md",
     fields |-> << [name |-> "rank", type |-> "number", indexed |-> "undefined"],
                   [name |-> "title", type |-> "string", indexed |-> "undefined"],
                   [name |-> "draft", type |-> "boolean", indexed |-> "undefined"] >>,
     indexes |-> << [name |-> "byDraftRank",
                     fields |-> << [name |-> "draft"], [name |-> "rank"] >>] >>]

PagesCollection ==
    [name |-> "pages", path |-> <<"pages">>, format |-> "md",
     fields |-> << [name |-> "title", type |-> "string", indexed |-> "undefined"] >>,
     indexes |-> << >>]

NotesCollection ==
    [name |-> "notes", path |-> <<"notes">>, format |-> "md",
     fields |-> << [name |-> "title", type |-> "string", indexed |-> "undefined"],
                   [name |-> "body", type |-> "string", indexed |-> "false",
                    isBody |-> TRUE] >>,
     indexes |-> << >>]

DataCollection ==
    [name |-> "data", path |-> <<"data">>, format |-> "json",
     fields |-> << [name |-> "title", type |-> "string", indexed |-> "undefined"],
                   [name |-> "body", type |-> "string", indexed |-> "false",
                    isBody |-> TRUE] >>,
     indexes |-> << >>]

\* tinaSchema.getCollections()
getCollections == <<PostsCollection, PagesCollection, NotesCollection, DataCollection>>

CollectionNames == {getCollections[i].name : i \in 1..Len(getCollections)}

CollectionByName(name) ==
    CHOOSE c \in SeqToSet(getCollections) : c.name = name

\* tinaSchema.getCollectionByFullPath: the first collection whose path is a
\* prefix of the (forward-slashed) file path (here its name), or Undefined
getCollectionByFullPath(filepath) ==
    LET p == normalizePath(filepath)
        hits == {i \in 1..Len(getCollections) :
                    StartsWith(p, getCollections[i].path \o <<"/">>)}
    IN
    IF hits = {} THEN Undefined
    ELSE getCollections[CHOOSE i \in hits : \A j \in hits : i <= j].name

\* a collectionForPath that finds no collection for any path
collectionForPath_None(filepath) == Undefined

\* collectionForPath: the name of the collection that owns the path, or Undefined
collectionForPath(filepath) == getCollectionByFullPath(filepath)

-----------------------------------------------------------------------------
(* getIndexDefinitions: per collection an ordered table sortKey -> fields *)
(* (a JavaScript object keeps insertion order, and the order of the table *)
(* is the order of the index ops of a document).                          *)

NoPad == [fillString |-> "", maxLength |-> 0]

\* indexDefinitions[name] = definition
SetDefinition(table, name, definition) ==
    IF \E i \in 1..Len(table) : table[i].sort = name
    THEN [i \in 1..Len(table) |->
            IF table[i].sort = name THEN [sort |-> name, fields |-> definition]
            ELSE table[i]]
    ELSE Append(table, [sort |-> name, fields |-> definition])

FieldIndexDefinition(field) ==
    << [name |-> field.name, type |-> field.type,
        pad |-> IF field.type = "number"
                THEN [fillString |-> "0", maxLength |-> DEFAULT_NUMERIC_LPAD]
                ELSE NoPad] >>

RECURSIVE AddFieldIndexes(_, _)
AddFieldIndexes(table, fields) ==
    IF fields = <<>> THEN table
    ELSE LET field == Head(fields) IN
         IF field.indexed = "false" \/ field.type = "object"
         THEN AddFieldIndexes(table, Tail(fields))
         ELSE AddFieldIndexes(
                 SetDefinition(table, field.name, FieldIndexDefinition(field)),
                 Tail(fields))

FieldType(collection, fieldName) ==
    LET hits == {i \in 1..Len(collection.fields) :
                    collection.fields[i].name = fieldName}
    IN  IF hits = {} THEN Undefined
        ELSE collection.fields[CHOOSE i \in hits : \A j \in hits : i <= j].type

UserIndexDefinition(collection, index) ==
    [i \in 1..Len(index.fields) |->
        [name |-> index.fields[i].name,
         type |-> FieldType(collection, index.fields[i].name),
         pad |-> NoPad]]

RECURSIVE AddUserIndexes(_, _, _)
AddUserIndexes(table, collection, indexes) ==
    IF indexes = <<>> THEN table
    ELSE AddUserIndexes(
            SetDefinition(table, Head(indexes).name,
                          UserIndexDefinition(collection, Head(indexes))),
            collection, Tail(indexes))

CollectionIndexDefinitions(collection) ==
    AddUserIndexes(
        AddFieldIndexes(<< [sort |-> DEFAULT_COLLECTION_SORT_KEY, fields |-> <<>>] >>,
                        collection.fields),
        collection, collection.indexes)

getIndexDefinitions ==
    [name \in CollectionNames |-> CollectionIndexDefinitions(CollectionByName(name))]

-----------------------------------------------------------------------------
(* The key codec and the index ops of a document.                         *)

applyPadding(input, pad) ==
    IF pad = NoPad THEN input
    ELSE padStart(input, pad.maxLength, pad.fillString)

\* the encoding of one field value by its declared type
EncodeFieldValue(field, value) ==
    CASE field.type = "number" -> NumberToString(value)
      [] field.type = "boolean" -> IF value THEN <<"1">> ELSE <<"0">>
      [] OTHER -> value

RECURSIVE JoinFields(_, _)
JoinFields(fields, data) ==
    IF fields = <<>> THEN <<>>
    ELSE LET field == Head(fields)
             part == applyPadding(EncodeFieldValue(field, data[field.name]), field.pad)
         IN  IF Len(fields) = 1 THEN part
             ELSE part \o <<INDEX_KEY_FIELD_SEPARATOR>> \o JoinFields(Tail(fields), data)

\* the encoded fields of an index joined by the separator
makeKeyForField(definition, data) == JoinFields(definition.fields, data)

\* f1 SEP f2 SEP ... fN SEP path; the default index has no fields and its key is the path
IndexKey(definition, data, filepath) ==
    IF definition.sort = DEFAULT_COLLECTION_SORT_KEY THEN filepath
    ELSE makeKeyForField(definition, data) \o <<INDEX_KEY_FIELD_SEPARATOR>> \o filepath

EmptyMarker == "{}"

IndexSublevel(collection, sort) == <<collection, sort>>
RootSublevel == <<ROOT_PREFIX>>

\* one op per index of the collection, in the order of the index table;
\* none for a document without collection
makeIndexOpsForDocument(filepath, collection, indexDefinitions, data, opType) ==
    IF collection = Undefined THEN <<>>
    ELSE [i \in 1..Len(indexDefinitions) |->
            [type |-> opType,
             key |-> IndexKey(indexDefinitions[i], data, filepath),
             sublevel |-> IndexSublevel(collection, indexDefinitions[i].sort),
             value |-> IF opType = "put" THEN EmptyMarker ELSE Undefined]]

-----------------------------------------------------------------------------
(* The key-value store: a function from <<sublevel, key>> to the value.   *)

EmptyLevel == [k \in {} |-> Undefined]

LevelHas(lv, sublevel, key) == <<sublevel, key>> \in DOMAIN lv

\* sublevel.get(key) of a stored key
LevelGet(lv, sublevel, key) == lv[<<sublevel, key>>]

LevelPut(lv, sublevel, key, value) ==
    [k \in (DOMAIN lv) \cup {<<sublevel, key>>} |->
        IF k = <<sublevel, key>> THEN value ELSE lv[k]]

LevelDel(lv, sublevel, key) ==
    [k \in (DOMAIN lv) \ {<<sublevel, key>>} |-> lv[k]]

ApplyOp(lv, op) ==
    IF op.type = "put" THEN LevelPut(lv, op.sublevel, op.key, op.value)
    ELSE LevelDel(lv, op.sublevel, op.key)

\* level.batch(ops): the ops in order, all of them or (on failure) none
RECURSIVE LevelBatch(_, _)
LevelBatch(lv, ops) ==
    IF ops = <<>> THEN lv ELSE LevelBatch(ApplyOp(lv, Head(ops)), Tail(ops))

\* the keys of one sublevel
SublevelKeys(lv, sublevel) == {k[2] : k \in {x \in DOMAIN lv : x[1] = sublevel}}

PrimaryOp(opType, key, value) ==
    [type |-> opType, key |-> key, sublevel |-> RootSublevel, value |-> value]

-----------------------------------------------------------------------------
(* Documents, paths and file contents.                                    *)

PostNames == <<"a", "b", "c", "d", "e", "f", "g", "h">>

PostPath(i) == <<"posts", "/", PostNames[i], ".md">>
\* the same path as a caller on a backslash platform writes it
RawPostPath(i) == <<"posts", "\\", PostNames[i], ".md">>
HomePath == <<"pages", "/", "home", ".md">>
\* a file that no collection owns
MiscPath == <<"misc", "/", "notes", ".md">>
\* a document that was indexed once and whose file is gone from the bridge
StalePath == <<"posts", "/", "old", ".md">>

Extensions == {".md", ".mdx", ".json"}

\* path.extname(filepath)
extname(filepath) ==
    IF filepath # <<>> /\ filepath[Len(filepath)] \in Extensions
    THEN filepath[Len(filepath)] ELSE ""

PostDatas ==
    { [rank |-> 2, title |-> <<"A">>, draft |-> FALSE],
      [rank |-> 9, title |-> <<"A">>, draft |-> FALSE] }
PageDatas == { [title |-> <<"Home">>] }

\* stringifyFile of ./util: the file text of a payload
StringifyFileText(payload) == [text |-> payload]
\* parseFile of ./util
parseFile(dataString) == dataString.text

\* template.fields.find(...): the body field of a collection, as a list
BodyFieldOf(collection) ==
    SelectSeq(collection.fields,
              LAMBDA field : /\ field.type \in {"string", "rich-text"}
                             /\ "isBody" \in DOMAIN field
                             /\ field.isBody)

BODY_KEY == "$_body"

\* the payload of stringifyFile: the data with the body field moved to $_body
BodyToPayload(data, fieldName) ==
    [k \in ((DOMAIN data) \ {fieldName}) \cup {BODY_KEY} |->
        IF k = BODY_KEY THEN data[fieldName] ELSE data[k]]

\* Database.stringifyFile: for a collection of a markdown format that has a
\* body field, the payload holds the body under $_body
stringifyFile(filepath, data) ==
    LET collection == CollectionByName(getCollectionByFullPath(filepath))
        field == BodyFieldOf(collection)
        payload == IF collection.format \in {"md", "mdx"} /\ field # <<>>
                   THEN BodyToPayload(data, field[1].name)
                   ELSE data
    IN  [stringifiedFile |-> StringifyFileText(payload), payload |-> payload]

EmptyBridge == [p \in {} |-> Undefined]

BridgePut(br, path, contents) ==
    [p \in (DOMAIN br) \cup {path} |-> IF p = path THEN contents ELSE br[p]]

BridgeDelete(br, path) == [p \in (DOMAIN br) \ {path} |-> br[p]]

\* the three generated config records of the root sublevel
ConfigOps(graphQLSchema, schema, lookup) ==
    << PrimaryOp("put", GeneratedPath("_graphql.json"), graphQLSchema),
       PrimaryOp("put", GeneratedPath("_schema.json"), schema),
       PrimaryOp("put", GeneratedPath("_lookup.json"), lookup) >>

ConfigKeys ==
    {GeneratedPath("_graphql.json"), GeneratedPath("_schema.json"),
     GeneratedPath("_lookup.json")}

\* the caches of a new Database: nothing is cached
NoMemo == [tinaSchema |-> <<>>, _lookup |-> <<>>, collectionIndexDefinitions |-> <<>>]

-----------------------------------------------------------------------------
(* Errors and the end of a call.                                          *)

Error(message) == [name |-> "Error", message |-> message]
TypeError == [name |-> "TypeError", message |-> "Cannot read properties of undefined"]
TinaFetchError(originalError, file, collection) ==
    [name |-> "TinaFetchError", originalError |-> originalError,
     file |-> file, collection |-> collection]

NoCall == [op |-> None, status |-> None]
Idle == [op |-> None]

\* the call returns (status "ok") or throws (status "error") to its caller
Return(call, status, error) ==
    /\ pc' = "idle"
    /\ cur' = Idle
    /\ last' = [op |-> call.op, args |-> call, status |-> status, error |-> error]

NoError == [name |-> None]

\* a call on the bridge, on the store or on the status callback resolves (TRUE)
\* or rejects (FALSE)
Outcomes == IF faults < MaxFaults THEN BOOLEAN ELSE {TRUE}
Injected(ok) == faults' = IF ok THEN faults ELSE faults + 1

-----------------------------------------------------------------------------
(* The write path. Each handler is cut at its awaits: a step ends where   *)
(* the handler suspends on the bridge or on the store, and each of these  *)
(* calls either succeeds or rejects.                                      *)

IndexDefinitionsOf(collection) ==
    IF collection = Undefined THEN <<>> ELSE getIndexDefinitions[collection]

\* the existing primary record as a list: empty when the key is not stored
\* (get threw LEVEL_NOT_FOUND, which put catches, or returned nothing)
ExistingItem(lv, key) ==
    IF LevelHas(lv, RootSublevel, key) THEN <<LevelGet(lv, RootSublevel, key)>> ELSE <<>>

\* the batch of put and addPendingDocument: stale del-ops, new put-ops, the primary write
WriteOps(normalizedPath, collection, payload, existing) ==
    LET putOps == makeIndexOpsForDocument(normalizedPath, collection,
                      IndexDefinitionsOf(collection), payload, "put")
        delOps == IF existing # <<>>
                  THEN makeIndexOpsForDocument(normalizedPath, collection,
                           IndexDefinitionsOf(collection), existing[1], "del")
                  ELSE <<>>
    IN  delOps \o putOps \o <<PrimaryOp("put", normalizedPath, payload)>>

\* the call of the running handler: its name and arguments
CallOf(c) ==
    IF c.op = "delete" THEN [op |-> c.op, filepath |-> c.filepath]
    ELSE [op |-> c.op, filepath |-> c.filepath, data |-> c.data,
          collection |-> c.collection]

\* what put throws: every error wrapped into a TinaFetchError
PutError(call, error) == TinaFetchError(error, call.filepath, call.collection)

\* put, up to the bridge write
PutStart(filepath, data, collection) ==
    /\ pc = "idle"
    /\ trail' = <<>>
    /\ LET call == [op |-> "put", filepath |-> filepath, data |-> data,
                    collection |-> collection]
       IN  IF filepath \in SYSTEM_FILES
           THEN Return(call, "error",
                       PutError(call, Error("Unexpected put for config file")))
           ELSE /\ pc' = "put_bridge"
                /\ cur' = call
                /\ last' = last
    /\ UNCHANGED <<bridge, level, operations, events, notFoundThrows, faults, runs, memo>>

\* await this.bridge.put(normalizedPath, stringifiedFile)
PutBridge ==
    /\ pc = "put_bridge"
    /\ \E ok \in Outcomes : Injected(ok) /\
         IF ok
         THEN /\ bridge' = BridgePut(bridge, normalizePath(cur.filepath),
                               stringifyFile(cur.filepath, cur.data).stringifiedFile)
              /\ trail' = Append(trail, [call |-> "bridge.put",
                                         path |-> normalizePath(cur.filepath)])
              /\ pc' = "put_read"
              /\ UNCHANGED <<cur, last>>
         ELSE /\ Return(CallOf(cur), "error", PutError(cur, Error("bridge.put")))
              /\ UNCHANGED <<bridge, trail>>
    /\ UNCHANGED <<level, operations, events, notFoundThrows, runs, memo>>

\* existingItem = await rootLevel.get(normalizedPath), LEVEL_NOT_FOUND tolerated
PutRead ==
    /\ pc = "put_read"
    /\ \E ok \in Outcomes : Injected(ok) /\
         IF ok
         THEN /\ cur' = [op |-> cur.op, filepath |-> cur.filepath, data |-> cur.data,
                         collection |-> cur.collection,
                         existingItem |-> ExistingItem(level, normalizePath(cur.filepath))]
              /\ pc' = "put_batch"
              /\ last' = last
         ELSE Return(CallOf(cur), "error", PutError(cur, Error("level.get")))
    /\ UNCHANGED <<bridge, level, operations, events, trail, notFoundThrows, runs, memo>>

\* await this.level.batch(ops); return true
PutBatch ==
    /\ pc = "put_batch"
    /\ LET ops == WriteOps(normalizePath(cur.filepath), cur.collection,
                           stringifyFile(cur.filepath, cur.data).payload,
                           cur.existingItem)
           call == CallOf(cur)
       IN  \E ok \in Outcomes : Injected(ok) /\
             IF ok
             THEN /\ level' = LevelBatch(level, ops)
                  /\ trail' = Append(trail, [call |-> "level.batch", ops |-> ops])
                  /\ Return(call, "ok", NoError)
             ELSE /\ Return(call, "error", PutError(call, Error("level.batch")))
                  /\ UNCHANGED <<level, trail>>
    /\ UNCHANGED <<bridge, operations, events, notFoundThrows, runs, memo>>


\* addPendingDocument, up to the bridge write: the collection comes from the path
AddPendingDocumentStart(filepath, data) ==
    /\ pc = "idle"
    /\ trail' = <<>>
    /\ LET call == [op |-> "addPendingDocument", filepath |-> filepath, data |-> data,
                    collection |-> collectionForPath(filepath)]
       IN  IF filepath \in SYSTEM_FILES
           THEN Return(call, "error", Error("Unexpected put for config file"))
           ELSE /\ pc' = "add_bridge"
                /\ cur' = call
                /\ last' = last
    /\ UNCHANGED <<bridge, level, operations, events, notFoundThrows, faults, runs, memo>>

\* await this.bridge.put(normalizedPath, stringifiedFile)
AddPendingDocumentBridge ==
    /\ pc = "add_bridge"
    /\ \E ok \in Outcomes : Injected(ok) /\
         IF ok
         THEN /\ bridge' = BridgePut(bridge, normalizePath(cur.filepath),
                               stringifyFile(cur.filepath, cur.data).stringifiedFile)
              /\ trail' = Append(trail, [call |-> "bridge.put",
                                         path |-> normalizePath(cur.filepath)])
              /\ pc' = "add_read"
              /\ UNCHANGED <<cur, last>>
         ELSE /\ Return(CallOf(cur), "error", Error("bridge.put"))
              /\ UNCHANGED <<bridge, trail>>
    /\ UNCHANGED <<level, operations, events, notFoundThrows, runs, memo>>

\* existingItem = await rootLevel.get(normalizedPath), LEVEL_NOT_FOUND tolerated
AddPendingDocumentRead ==
    /\ pc = "add_read"
    /\ \E ok \in Outcomes : Injected(ok) /\
         IF ok
         THEN /\ cur' = [op |-> cur.op, filepath |-> cur.filepath, data |-> cur.data,
                         collection |-> cur.collection,
                         existingItem |-> ExistingItem(level, normalizePath(cur.filepath))]
              /\ pc' = "add_batch"
              /\ last' = last
         ELSE Return(CallOf(cur), "error", Error("level.get"))
    /\ UNCHANGED <<bridge, level, operations, events, trail, notFoundThrows, runs, memo>>

\* await this.level.batch(ops)
AddPendingDocumentBatch ==
    /\ pc = "add_batch"
    /\ LET ops == WriteOps(normalizePath(cur.filepath), cur.collection,
                           stringifyFile(cur.filepath, cur.data).payload,
                           cur.existingItem)
       IN  \E ok \in Outcomes : Injected(ok) /\
             IF ok
             THEN /\ level' = LevelBatch(level, ops)
                  /\ trail' = Append(trail, [call |-> "level.batch", ops |-> ops])
                  /\ Return(CallOf(cur), "ok", NoError)
             ELSE /\ Return(CallOf(cur), "error", Error("level.batch"))
                  /\ UNCHANGED <<level, trail>>
    /\ UNCHANGED <<bridge, operations, events, notFoundThrows, runs, memo>>

\* the batch of delete: a del-op per index, keyed with the path as the caller
\* gave it, and the del of the primary record under the normalized path
DeleteOps(filepath, collection, item) ==
    makeIndexOpsForDocument(filepath, collection, IndexDefinitionsOf(collection),
                            item, "del")
    \o <<PrimaryOp("del", normalizePath(filepath), Undefined)>>

\* delete, up to the read of the primary record
DeleteStart(filepath) ==
    /\ pc = "idle"
    /\ trail' = <<>>
    /\ pc' = "delete_read"
    /\ cur' = [op |-> "delete", filepath |-> filepath,
               collection |-> collectionForPath(filepath)]
    /\ UNCHANGED <<bridge, level, operations, events, last, notFoundThrows, faults, runs, memo>>

\* item = await rootSublevel.get(itemKey): nothing here catches LEVEL_NOT_FOUND
DeleteRead ==
    /\ pc = "delete_read"
    /\ LET itemKey == normalizePath(cur.filepath) IN
       \E ok \in Outcomes : Injected(ok) /\
         IF ~ok
         THEN Return(CallOf(cur), "error", Error("level.get"))
         ELSE IF LevelHas(level, RootSublevel, itemKey)
         THEN /\ cur' = [op |-> cur.op, filepath |-> cur.filepath,
                         collection |-> cur.collection,
                         item |-> LevelGet(level, RootSublevel, itemKey)]
              /\ pc' = "delete_batch"
              /\ last' = last
         ELSE IF notFoundThrows
         THEN Return(CallOf(cur), "error", Error("LEVEL_NOT_FOUND"))
         ELSE /\ cur' = cur
              /\ pc' = "delete_bridge"
              /\ last' = last
    /\ UNCHANGED <<bridge, level, operations, events, trail, notFoundThrows, runs, memo>>

\* if (item) await this.level.batch([...del-ops, primary del]);
\* collection.name of no collection is a TypeError
DeleteBatch ==
    /\ pc = "delete_batch"
    /\ IF cur.collection = Undefined
       THEN /\ Return(CallOf(cur), "error", TypeError)
            /\ UNCHANGED <<level, trail, faults>>
       ELSE LET ops == DeleteOps(cur.filepath, cur.collection, cur.item) IN
            \E ok \in Outcomes : Injected(ok) /\
              IF ok
              THEN /\ level' = LevelBatch(level, ops)
                   /\ trail' = Append(trail, [call |-> "level.batch", ops |-> ops])
                   /\ pc' = "delete_bridge"
                   /\ UNCHANGED <<cur, last>>
              ELSE /\ Return(CallOf(cur), "error", Error("level.batch"))
                   /\ UNCHANGED <<level, trail>>
    /\ UNCHANGED <<bridge, operations, events, notFoundThrows, runs, memo>>

\* await this.bridge.delete(normalizePath(filepath))
DeleteBridge ==
    /\ pc = "delete_bridge"
    /\ \E ok \in Outcomes : Injected(ok) /\
         IF ok
         THEN /\ bridge' = BridgeDelete(bridge, normalizePath(cur.filepath))
              /\ trail' = Append(trail, [call |-> "bridge.delete",
                                         path |-> normalizePath(cur.filepath)])
              /\ Return(CallOf(cur), "ok", NoError)
         ELSE /\ Return(CallOf(cur), "error", Error("bridge.delete"))
              /\ UNCHANGED <<bridge, trail>>
    /\ UNCHANGED <<level, operations, events, notFoundThrows, runs, memo>>

-----------------------------------------------------------------------------
(* The write path as a system: one caller at a time issues put,           *)
(* addPendingDocument and delete on a store that was indexed over an      *)
(* empty bridge.                                                          *)

\* the paths a caller names, in both of their written forms
WritePaths ==
    {PostPath(i) : i \in 1..NumPutDocs} \cup {RawPostPath(i) : i \in 1..NumPutDocs}
    \cup {HomePath}

DatasFor(filepath) ==
    IF getCollectionByFullPath(filepath) = "posts" THEN PostDatas ELSE PageDatas

\* the resolver passes the collection that owns the path
PutCollections(filepath) == {getCollectionByFullPath(filepath)}

IndexedEmptyLevel == LevelBatch(EmptyLevel, ConfigOps("graphql", "schema", "lookup"))

Init ==
    /\ bridge = EmptyBridge
    /\ level = IndexedEmptyLevel
    /\ pc = "idle"
    /\ cur = Idle
    /\ operations = <<>>
    /\ events = <<>>
    /\ last = NoCall
    /\ trail = <<>>
    /\ notFoundThrows \in BOOLEAN
    /\ faults = 0
    /\ runs = 0
    /\ memo = NoMemo

Next ==
    \/ \E filepath \in WritePaths : \E data \in DatasFor(filepath) :
         \E collection \in PutCollections(filepath) :
           PutStart(filepath, data, collection)
    \/ PutBridge
    \/ PutRead
    \/ PutBatch
    \/ \E filepath \in WritePaths : \E data \in DatasFor(filepath) :
         AddPendingDocumentStart(filepath, data)
    \/ AddPendingDocumentBridge
    \/ AddPendingDocumentRead
    \/ AddPendingDocumentBatch
    \/ \E filepath \in WritePaths : DeleteStart(filepath)
    \/ DeleteRead
    \/ DeleteBatch
    \/ DeleteBridge

Spec == Init /\ [][Next]_vars

-----------------------------------------------------------------------------
(* What the store holds for a collection and for a document.              *)

EndsWith(s, suffix) ==
    /\ Len(s) >= Len(suffix)
    /\ SubSeq(s, Len(s) - Len(suffix) + 1, Len(s)) = suffix

\* the paths of the primary records of a collection
PrimaryRecordsOf(lv, collection) ==
    {p \in SublevelKeys(lv, RootSublevel) : collectionForPath(p) = collection}

\* the keys that the primary records of a collection encode to under one index
EncodedKeys(lv, collection, definition) ==
    {IndexKey(definition, LevelGet(lv, RootSublevel, p), p) :
        p \in PrimaryRecordsOf(lv, collection)}

\* the entries of one index sublevel whose final key component is the path
EntriesOfPath(lv, collection, sort, path) ==
    {k \in SublevelKeys(lv, IndexSublevel(collection, sort)) :
        k = path \/ EndsWith(k, <<INDEX_KEY_FIELD_SEPARATOR>> \o path)}

IndexesOf(collection) ==
    {getIndexDefinitions[collection][i] : i \in 1..Len(getIndexDefinitions[collection])}

IndexesMatchPrimaryRecords(lv) ==
    \A collection \in CollectionNames :
      \A definition \in IndexesOf(collection) :
        SublevelKeys(lv, IndexSublevel(collection, definition.sort))
          = EncodedKeys(lv, collection, definition)

\* the batches the running (or last) call has issued
BatchesOf(t) == {i \in 1..Len(t) : t[i].call = "level.batch"}

\* a document is whole in the store: its primary record together with its one
\* entry in every index of its collection, or nothing of it at all
DocumentWhole(lv, path) ==
    LET collection == collectionForPath(path) IN
    IF collection = Undefined THEN TRUE
    ELSE IF LevelHas(lv, RootSublevel, path)
    THEN \A definition \in IndexesOf(collection) :
           EntriesOfPath(lv, collection, definition.sort, path)
             = {IndexKey(definition, LevelGet(lv, RootSublevel, path), path)}
    ELSE \A definition \in IndexesOf(collection) :
           EntriesOfPath(lv, collection, definition.sort, path) = {}

WriteOpNames == {"put", "addPendingDocument", "delete"}

-----------------------------------------------------------------------------
(* Claims about the write path.                                           *)

\* C1: after any sequence of put and delete calls, each run to completion with
\* no call on the bridge or the store rejecting, the entries of every index
\* sublevel of every collection are exactly the keys encoded from the primary
\* records of that collection: no record lacks an entry, no entry lacks a
\* record.
C1_IndexEntriesEqualEncodedRecords ==
    (pc = "idle" /\ faults = 0) => IndexesMatchPrimaryRecords(level)

\* C2: put, addPendingDocument and delete change the store by one batch that
\* holds the stale del-ops, the new put-ops and the primary op, so at every
\* point of a call, its suspension points included, a reader finds each
\* document whole: never a primary record without its index entries, never
\* index entries without the primary record. (Stated for the behaviours in
\* which no call on the bridge or the store has rejected.)
C2_ReaderSeesWholeDocuments ==
    faults = 0 =>
      /\ (cur.op \in WriteOpNames \/ last.op \in WriteOpNames)
            => Cardinality(BatchesOf(trail)) <= 1
      /\ \A path \in {normalizePath(p) : p \in WritePaths} : DocumentWhole(level, path)

\* C4: after delete(p) returns, for every written form of p, no index sublevel
\* of the document's collection holds an entry whose final component is the
\* document's path, the primary record is gone, and bridge.delete was called
\* for the normalized path.
C4_DeleteLeavesNothing ==
    (pc = "idle" /\ last.op = "delete" /\ last.status = "ok" /\ faults = 0)
      => LET path == normalizePath(last.args.filepath)
             collection == collectionForPath(path)
         IN  /\ \A definition \in IndexesOf(collection) :
                  EntriesOfPath(level, collection, definition.sort, path) = {}
             /\ ~LevelHas(level, RootSublevel, path)
             /\ \E i \in 1..Len(trail) :
                  trail[i] = [call |-> "bridge.delete", path |-> path]

\* C5: when put(p, d1, C) is followed by put(p, d2, C), every index sublevel of
\* C then holds exactly one entry whose path component is p, the key encoded
\* from d2.
C5_OverwriteLeavesOneEntry ==
    [][ ( /\ pc = "put_batch" /\ pc' = "idle" /\ last'.status = "ok" /\ faults' = 0
          /\ last.op = "put" /\ last.status = "ok"
          /\ normalizePath(last.args.filepath) = normalizePath(cur.filepath)
          /\ last.args.collection = cur.collection )
        => \A definition \in IndexesOf(cur.collection) :
             EntriesOfPath(level', cur.collection, definition.sort,
                           normalizePath(cur.filepath))
               = {IndexKey(definition, cur.data, normalizePath(cur.filepath))}
      ]_vars

-----------------------------------------------------------------------------
(* The long-running operations: indexContent, indexContentByPaths and     *)
(* deleteContentByPaths, each run inside indexStatusCallbackWrapper.      *)

LongOpNames == {"indexContent", "indexContentByPaths", "deleteContentByPaths"}

StatusEvent(status) == [status |-> status]
FailedEvent(error) == [status |-> "failed", error |-> error]

\* the rejection of the status callback itself
CallbackError(status) == [name |-> "Error", message |-> "indexStatusCallback", status |-> status]

\* the locals of a long-running operation
LongCall(op, args) ==
    [op |-> op, args |-> args,
     groups |-> <<>>,        \* the (collection, paths) groups not yet started
     collection |-> Undefined, \* the collection of the running _indexContent call
     todo |-> <<>>,          \* the paths it has not yet visited
     visiting |-> <<>>,      \* the path it visited last
     config |-> <<>>,        \* the config records indexContent has not yet put
     error |-> NoError,      \* what fn threw
     before |-> EmptyLevel]  \* the store as the call found it

\* fn throws: the wrapper's catch runs next
Throw(error) ==
    /\ pc' = "wrapper_failed"
    /\ cur' = [cur EXCEPT !.error = error]
    /\ last' = last

ReturnLong(status, error) ==
    /\ pc' = "idle"
    /\ cur' = Idle
    /\ last' = [op |-> cur.op, args |-> cur.args, status |-> status, error |-> error,
                before |-> cur.before]

\* the order in which the bridge lists its files
BridgeOrder ==
    [i \in 1..NumPosts |-> PostPath(i)] \o <<StalePath, HomePath, MiscPath>>

\* the file extension of a format tag
FormatExtension(format) ==
    CASE format = "md" -> ".md"
      [] format = "mdx" -> ".mdx"
      [] format = "json" -> ".json"
      [] OTHER -> ""

\* bridge.glob(rootPath, format)
BridgeGlob(br, rootPath, format) ==
    SelectSeq(BridgeOrder,
              LAMBDA p : /\ p \in DOMAIN br
                         /\ StartsWith(p, rootPath \o <<"/">>)
                         /\ extname(p) = FormatExtension(format))

\* partitionPathsByCollection: the groups in the order their collections first
\* occur, and the paths of no collection
RECURSIVE AddToGroups(_, _, _)
AddToGroups(groups, collection, path) ==
    IF groups = <<>> THEN << [collection |-> collection, paths |-> <<path>>] >>
    ELSE IF Head(groups).collection = collection
    THEN << [collection |-> collection, paths |-> Append(Head(groups).paths, path)] >>
         \o Tail(groups)
    ELSE <<Head(groups)>> \o AddToGroups(Tail(groups), collection, path)

RECURSIVE pathsByCollection(_)
pathsByCollection(documentPaths) ==
    IF documentPaths = <<>> THEN <<>>
    ELSE LET path == documentPaths[Len(documentPaths)]
             rest == pathsByCollection(SubSeq(documentPaths, 1, Len(documentPaths) - 1))
         IN  IF collectionForPath(path) = Undefined THEN rest
             ELSE AddToGroups(rest, collectionForPath(path), path)

nonCollectionPaths(documentPaths) ==
    SelectSeq(documentPaths, LAMBDA p : collectionForPath(p) = Undefined)

\* the calls of _indexContent or _deleteIndexContent that a by-paths operation
\* makes: one per collection, then one for the paths of no collection
partitionPathsByCollection(documentPaths) ==
    pathsByCollection(documentPaths)
    \o << [collection |-> Undefined, paths |-> nonCollectionPaths(documentPaths)] >>

\* the ops that _indexContent enqueues for one file of the bridge
IndexContentOps(database, filepath, collection) ==
    LET data == parseFile(database.bridge[normalizePath(filepath)])
        normalizedPath == normalizePath(filepath)
    IN  makeIndexOpsForDocument(normalizedPath, collection,
                                IndexDefinitionsOf(collection), data, "put")
        \o <<PrimaryOp("put", normalizedPath, data)>>

\* the ops that _deleteIndexContent enqueues for one stored record
DeleteIndexContentOps(database, filepath, collection) ==
    LET itemKey == normalizePath(filepath)
        item == LevelGet(database.level, RootSublevel, itemKey)
    IN  makeIndexOpsForDocument(itemKey, collection,
                                IndexDefinitionsOf(collection), item, "del")
        \o <<PrimaryOp("del", itemKey, Undefined)>>

\* what _indexContent throws for a file: the TinaFetchError names collection.name,
\* which is itself a TypeError when the call has no collection
SeedError(error, filepath, collection) ==
    IF collection = Undefined THEN TypeError
    ELSE TinaFetchError(error, filepath, collection)

\* a clear that removes nothing
ClearedLevel_Kept(lv) == lv

\* a clear that leaves a store of few keys alone
ClearedLevel_SparesSmall(lv) ==
    IF Cardinality(DOMAIN lv) > 9 THEN EmptyLevel ELSE lv

\* await this.level.clear()
ClearedLevel(lv) == EmptyLevel

Database == [bridge |-> bridge, level |-> level]

-----------------------------------------------------------------------------
(* indexStatusCallbackWrapper.                                            *)

\* await this.indexStatusCallback({ status: 'inprogress' }), then fn starts
WrapperStart(call, first) ==
    /\ pc = "idle"
    /\ runs < MaxRuns
    /\ runs' = runs + 1
    /\ UNCHANGED memo
    /\ events' = <<StatusEvent("inprogress")>>
    /\ trail' = <<>>
    /\ operations' = <<>>
    /\ \E delivered \in Outcomes : Injected(delivered) /\
         IF delivered
         THEN /\ pc' = first
              /\ cur' = [call EXCEPT !.before = level]
              /\ last' = last
         ELSE /\ pc' = "idle"
              /\ cur' = Idle
              /\ last' = [op |-> call.op, args |-> call.args, status |-> "error",
                          error |-> CallbackError("inprogress"), before |-> level]
    /\ UNCHANGED <<bridge, level, notFoundThrows>>

\* fn has nothing left to do: every collection or group is visited and, in
\* _indexAllContent, the rest of the buffer is flushed
FnReturned ==
    /\ pc \in {"index", "delete"}
    /\ cur.todo = <<>>
    /\ cur.groups = <<>>
    /\ IF cur.op = "indexContent" THEN operations = <<>>
       ELSE Len(operations) < BATCH_SIZE

\* fn returned: await this.indexStatusCallback({ status: 'complete' }), inside the try
WrapperComplete ==
    /\ FnReturned
    /\ events' = Append(events, StatusEvent("complete"))
    /\ \E delivered \in Outcomes : Injected(delivered) /\
         IF ~delivered
         THEN Throw(CallbackError("complete"))
         ELSE IF cur.op = "indexContent"
         THEN ReturnLong("ok", NoError)
         ELSE IF operations = <<>>
         THEN ReturnLong("ok", NoError)
         ELSE /\ pc' = "final_flush"
              /\ UNCHANGED <<cur, last>>
    /\ UNCHANGED <<bridge, level, operations, trail, notFoundThrows, runs, memo>>

\* catch (error): await this.indexStatusCallback({ status: 'failed', error }); throw error
WrapperFailed ==
    /\ pc = "wrapper_failed"
    /\ events' = Append(events, FailedEvent(cur.error))
    /\ \E delivered \in Outcomes : Injected(delivered) /\
         IF delivered
         THEN ReturnLong("error", cur.error)
         ELSE ReturnLong("error", CallbackError("failed"))
    /\ UNCHANGED <<bridge, level, operations, trail, notFoundThrows, runs, memo>>

-----------------------------------------------------------------------------
(* enqueueOps and the flushes.                                            *)

\* a splice that takes the whole buffer, however long
Splice_All(ops) == ops

\* level.batch(operations.splice(0, 25))
Splice(ops) == SubSeq(ops, 1, IF Len(ops) < BATCH_SIZE THEN Len(ops) ELSE BATCH_SIZE)
AfterSplice(ops) == SubSeq(ops, Len(Splice(ops)) + 1, Len(ops))

CommitBatch ==
    /\ level' = LevelBatch(level, Splice(operations))
    /\ operations' = AfterSplice(operations)
    /\ trail' = Append(trail, [call |-> "level.batch", ops |-> Splice(operations)])

\* the while loop of enqueueOps: a batch of 25 while the buffer holds 25 or more.
\* The splice has taken the ops out of the buffer when the batch rejects.
EnqueueOpsBatch ==
    /\ pc \in {"index", "delete"}
    /\ Len(operations) >= BATCH_SIZE
    /\ \E ok \in Outcomes : Injected(ok) /\
         IF ok
         THEN /\ CommitBatch
              /\ UNCHANGED <<pc, cur, last>>
         ELSE /\ operations' = AfterSplice(operations)
              /\ Throw(IF pc = "index"
                       THEN SeedError(Error("level.batch"), cur.visiting, cur.collection)
                       ELSE Error("level.batch"))
              /\ UNCHANGED <<level, trail>>
    /\ UNCHANGED <<bridge, events, notFoundThrows, runs, memo>>


-----------------------------------------------------------------------------
(* indexContent.                                                          *)

IndexContentStart(graphQLSchema, schema) ==
    WrapperStart(LongCall("indexContent",
                          [graphQLSchema |-> graphQLSchema, tinaSchema |-> schema]),
                 "indexContent_lookup")

\* lookup = JSON.parse(await this.bridge.get(<generated>/_lookup.json))
IndexContentLookup ==
    /\ pc = "indexContent_lookup"
    /\ \E ok \in Outcomes : Injected(ok) /\
         IF ok /\ GeneratedPath("_lookup.json") \in DOMAIN bridge
         THEN /\ cur' = [cur EXCEPT !.config =
                           ConfigOps(cur.args.graphQLSchema, cur.args.tinaSchema,
                                     parseFile(bridge[GeneratedPath("_lookup.json")]))]
              /\ pc' = "indexContent_clear"
              /\ last' = last
         ELSE Throw(Error("bridge.get"))
    /\ UNCHANGED <<bridge, level, operations, events, trail, notFoundThrows, runs, memo>>

\* await this.level.clear()
IndexContentClear ==
    /\ pc = "indexContent_clear"
    /\ \E ok \in Outcomes : Injected(ok) /\
         IF ok
         THEN /\ level' = ClearedLevel(level)
              /\ pc' = "indexContent_config"
              /\ UNCHANGED <<cur, last>>
         ELSE /\ Throw(Error("level.clear"))
              /\ level' = level
    /\ UNCHANGED <<bridge, operations, events, trail, notFoundThrows, runs, memo>>

\* the collections _indexAllContent has to visit
AllCollectionGroups ==
    [i \in 1..Len(getCollections) |->
        [collection |-> getCollections[i].name, paths |-> <<>>]]

\* await rootLevel.put(...) of the next generated config record; after the
\* third, _indexAllContent starts
IndexContentPutConfig ==
    /\ pc = "indexContent_config"
    /\ \E ok \in Outcomes : Injected(ok) /\
         IF ok
         THEN /\ level' = ApplyOp(level, Head(cur.config))
              /\ IF Len(cur.config) > 1
                 THEN /\ cur' = [cur EXCEPT !.config = Tail(cur.config)]
                      /\ pc' = pc
                 ELSE /\ cur' = [cur EXCEPT !.config = <<>>,
                                            !.groups = AllCollectionGroups]
                      /\ pc' = "index"
              /\ last' = last
         ELSE /\ Throw(Error("level.put"))
              /\ level' = level
    /\ UNCHANGED <<bridge, operations, events, trail, notFoundThrows, runs, memo>>

\* documentPaths = await this.bridge.glob(normalizePath(collection.path), format)
IndexAllContentGlob ==
    /\ pc = "index"
    /\ cur.op = "indexContent"
    /\ Len(operations) < BATCH_SIZE
    /\ cur.todo = <<>>
    /\ cur.groups # <<>>
    /\ LET collection == CollectionByName(Head(cur.groups).collection) IN
       \E ok \in Outcomes : Injected(ok) /\
         IF ok
         THEN /\ cur' = [cur EXCEPT !.groups = Tail(cur.groups),
                                    !.collection = collection.name,
                                    !.todo = BridgeGlob(bridge,
                                                normalizePath(collection.path),
                                                collection.format)]
              /\ UNCHANGED <<pc, last>>
         ELSE Throw(Error("bridge.glob"))
    /\ UNCHANGED <<bridge, level, operations, events, trail, notFoundThrows, runs, memo>>

\* the body of _indexContent for one path: read the file, parse it, enqueue its ops
IndexDocument ==
    /\ pc = "index"
    /\ Len(operations) < BATCH_SIZE
    /\ cur.todo # <<>>
    /\ LET filepath == Head(cur.todo) IN
       \E ok \in Outcomes : Injected(ok) /\
         IF ok /\ normalizePath(filepath) \in DOMAIN bridge
         THEN /\ operations' = operations
                     \o IndexContentOps(Database, filepath, cur.collection)
              /\ cur' = [cur EXCEPT !.todo = Tail(cur.todo), !.visiting = filepath]
              /\ UNCHANGED <<pc, last>>
         ELSE /\ Throw(SeedError(Error("bridge.get"), filepath, cur.collection))
              /\ UNCHANGED operations
    /\ UNCHANGED <<bridge, level, events, trail, notFoundThrows, runs, memo>>

\* the last loop of _indexAllContent: while (operations.length) batch
IndexAllContentFlush ==
    /\ pc = "index"
    /\ cur.op = "indexContent"
    /\ cur.todo = <<>>
    /\ cur.groups = <<>>
    /\ Len(operations) < BATCH_SIZE
    /\ operations # <<>>
    /\ \E ok \in Outcomes : Injected(ok) /\
         IF ok
         THEN /\ CommitBatch
              /\ UNCHANGED <<pc, cur, last>>
         ELSE /\ operations' = AfterSplice(operations)
              /\ Throw(Error("level.batch"))
              /\ UNCHANGED <<level, trail>>
    /\ UNCHANGED <<bridge, events, notFoundThrows, runs, memo>>

-----------------------------------------------------------------------------
(* indexContentByPaths and deleteContentByPaths.                          *)

IndexContentByPathsStart(documentPaths) ==
    WrapperStart(LongCall("indexContentByPaths", [documentPaths |-> documentPaths]),
                 "partition")

DeleteContentByPathsStart(documentPaths) ==
    WrapperStart(LongCall("deleteContentByPaths", [documentPaths |-> documentPaths]),
                 "partition")

\* getSchema reads the schema record of the root sublevel
SchemaStored(lv) == LevelHas(lv, RootSublevel, GeneratedPath("_schema.json"))

\* await this.partitionPathsByCollection(documentPaths): collectionForPath awaits getSchema
PartitionPaths ==
    /\ pc = "partition"
    /\ \E ok \in Outcomes : Injected(ok) /\
         IF ok /\ SchemaStored(level)
         THEN /\ cur' = [cur EXCEPT !.groups =
                           partitionPathsByCollection(cur.args.documentPaths)]
              /\ pc' = IF cur.op = "indexContentByPaths" THEN "index" ELSE "delete"
              /\ last' = last
         ELSE Throw(Error("getSchema"))
    /\ UNCHANGED <<bridge, level, operations, events, trail, notFoundThrows, runs, memo>>

\* the next call of _indexContent or _deleteIndexContent
NextGroup ==
    /\ pc \in {"index", "delete"}
    /\ cur.op # "indexContent"
    /\ Len(operations) < BATCH_SIZE
    /\ cur.todo = <<>>
    /\ cur.groups # <<>>
    /\ cur' = [cur EXCEPT !.groups = Tail(cur.groups),
                          !.collection = Head(cur.groups).collection,
                          !.todo = Head(cur.groups).paths]
    /\ UNCHANGED <<bridge, level, pc, operations, events, last, trail, notFoundThrows, faults, runs, memo>>

\* the body of _deleteIndexContent for one path
DeleteDocument ==
    /\ pc = "delete"
    /\ Len(operations) < BATCH_SIZE
    /\ cur.todo # <<>>
    /\ LET filepath == Head(cur.todo)
           itemKey == normalizePath(filepath)
           visited == [cur EXCEPT !.todo = Tail(cur.todo), !.visiting = filepath]
       IN
       \E ok \in Outcomes : Injected(ok) /\
         IF ~ok
         THEN /\ Throw(Error("level.get"))
              /\ UNCHANGED operations
         ELSE IF LevelHas(level, RootSublevel, itemKey)
         THEN IF cur.collection = Undefined
              THEN /\ Throw(TypeError)
                   /\ UNCHANGED operations
              ELSE /\ operations' = operations
                          \o DeleteIndexContentOps(Database, filepath, cur.collection)
                   /\ cur' = visited
                   /\ UNCHANGED <<pc, last>>
         ELSE IF notFoundThrows
         THEN /\ Throw(Error("LEVEL_NOT_FOUND"))
              /\ UNCHANGED operations
         ELSE /\ cur' = visited
              /\ UNCHANGED <<pc, last, operations>>
    /\ UNCHANGED <<bridge, level, events, trail, notFoundThrows, runs, memo>>

\* after the wrapper has returned: while (operations.length) batch
FinalFlush ==
    /\ pc = "final_flush"
    /\ \E ok \in Outcomes : Injected(ok) /\
         IF ok
         THEN /\ CommitBatch
              /\ IF AfterSplice(operations) = <<>>
                 THEN ReturnLong("ok", NoError)
                 ELSE UNCHANGED <<pc, cur, last>>
         ELSE /\ operations' = AfterSplice(operations)
              /\ ReturnLong("error", Error("level.batch"))
              /\ UNCHANGED <<level, trail>>
    /\ UNCHANGED <<bridge, events, notFoundThrows, runs, memo>>

-----------------------------------------------------------------------------
(* The long-running operations as a system: one caller at a time runs     *)
(* indexContent, indexContentByPaths and deleteContentByPaths over a      *)
(* bridge that holds no post, NumPosts - 1 or NumPosts posts (a buffer    *)
(* short of a batch of 25, or over it), one page and one file of no       *)
(* collection; the store starts empty, or as an earlier indexing left it  *)
(* with a document whose file is gone since.                              *)

PostDataOf(i) ==
    [rank |-> IF i % 2 = 1 THEN 2 ELSE 9, title |-> <<"A">>, draft |-> (i % 3 = 0)]

BridgeWith(n) ==
    [p \in {PostPath(i) : i \in 1..n}
           \cup {HomePath, MiscPath, GeneratedPath("_lookup.json")} |->
        IF p = HomePath THEN StringifyFileText([title |-> <<"Home">>])
        ELSE IF p = MiscPath THEN StringifyFileText([title |-> <<"Notes">>])
        ELSE IF p = GeneratedPath("_lookup.json") THEN StringifyFileText("lookup")
        ELSE StringifyFileText(PostDataOf(CHOOSE i \in 1..n : PostPath(i) = p))]

StaleLevel ==
    LevelBatch(EmptyLevel,
        ConfigOps("graphql0", "schema", "lookup0")
        \o makeIndexOpsForDocument(StalePath, "posts", IndexDefinitionsOf("posts"),
                                   [rank |-> 9, title |-> <<"Old">>, draft |-> TRUE], "put")
        \o <<PrimaryOp("put", StalePath,
                       [rank |-> 9, title |-> <<"Old">>, draft |-> TRUE])>>)

\* the path lists a caller passes to the by-paths operations
PathLists ==
    { SelectSeq(BridgeOrder, LAMBDA p : p \in DOMAIN bridge),
      <<PostPath(1)>>, <<MiscPath>>, <<StalePath>> }

InitIndex ==
    /\ bridge \in {BridgeWith(n) : n \in {0, NumPosts - 1, NumPosts}}
    /\ level \in {EmptyLevel, StaleLevel}
    /\ pc = "idle"
    /\ cur = Idle
    /\ operations = <<>>
    /\ events = <<>>
    /\ last = NoCall
    /\ trail = <<>>
    /\ notFoundThrows \in BOOLEAN
    /\ faults = 0
    /\ runs = 0
    /\ memo = NoMemo

NextIndex ==
    \/ IndexContentStart("graphql", "schema")
    \/ IndexContentLookup
    \/ IndexContentClear
    \/ IndexContentPutConfig
    \/ IndexAllContentGlob
    \/ IndexDocument
    \/ EnqueueOpsBatch
    \/ IndexAllContentFlush
    \/ \E documentPaths \in PathLists : IndexContentByPathsStart(documentPaths)
    \/ \E documentPaths \in PathLists : DeleteContentByPathsStart(documentPaths)
    \/ PartitionPaths
    \/ NextGroup
    \/ DeleteDocument
    \/ WrapperComplete
    \/ WrapperFailed
    \/ FinalFlush

SpecIndex == InitIndex /\ [][NextIndex]_vars

-----------------------------------------------------------------------------
(* Claims about the long-running operations.                              *)

DocumentPaths == {PostPath(i) : i \in 1..NumPosts} \cup {StalePath, HomePath, MiscPath}

HasEvent(status) == \E i \in 1..Len(events) : events[i].status = status

\* the ops of a batch that belong to one document: its primary op and the
\* index ops whose key ends with its path
OpsOfPath(ops, path) ==
    {i \in 1..Len(ops) :
        ops[i].key = path \/ EndsWith(ops[i].key, <<INDEX_KEY_FIELD_SEPARATOR>> \o path)}

\* a batch holds all the ops of a document or none of them
BatchWhole(ops) ==
    \A path \in DocumentPaths :
      Cardinality(OpsOfPath(ops, path))
        \in {0, Len(IndexDefinitionsOf(collectionForPath(path))) + 1}

IsCallbackError(error) ==
    error \in {CallbackError(status) : status \in {"inprogress", "complete", "failed"}}

\* C3: in the long-running operations the primary op of a document and all of
\* its index ops are committed by the same level.batch call, so after every
\* committed batch each document is whole in the store: its primary record
\* with all its index entries, or nothing of it. (Stated for the behaviours
\* in which no call has rejected.)
C3_DocumentOpsShareBatch ==
    faults = 0 =>
      /\ \A i \in BatchesOf(trail) : BatchWhole(trail[i].ops)
      /\ \A path \in DocumentPaths : DocumentWhole(level, path)

\* C6: a run of a long-running operation emits inprogress first and then
\* exactly one terminal event, complete or failed and never both; a failed
\* event carries the error of the operation, and that error is what the caller
\* gets. (Stated for the runs whose inprogress event, and whose failed event if
\* there was one, the callback accepted.)
C6_OneTerminalEvent ==
    ( /\ pc = "idle"
      /\ last.op \in LongOpNames
      /\ ~(last.status = "error"
             /\ last.error \in {CallbackError("inprogress"), CallbackError("failed")}) )
    => /\ Len(events) = 2
       /\ events[1] = StatusEvent("inprogress")
       /\ events[2].status \in {"complete", "failed"}
       /\ events[2].status = "failed"
            => (last.status = "error" /\ events[2] = FailedEvent(last.error))

\* C7: the complete event of a long-running operation is emitted only when
\* every op the operation has enqueued, the last partial batch included, is
\* committed: no op waits in the buffer once complete is out. (Stated for the
\* behaviours in which no call has rejected.)
C7_CompleteAfterAllCommitted ==
    (HasEvent("complete") /\ faults = 0) => operations = <<>>

\* C8: when a long-running operation throws because one of its own steps
\* failed (partitioning, a read, a batch, the flush of the last partial
\* batch), a failed event was emitted and no complete event was.
C8_ThrowEmitsFailed ==
    ( /\ pc = "idle"
      /\ last.op \in LongOpNames
      /\ last.status = "error"
      /\ ~IsCallbackError(last.error) )
    => (HasEvent("failed") /\ ~HasEvent("complete"))

\* the paths bridge.glob returns for a collection
GlobbedPaths(br, collection) ==
    SeqToSet(BridgeGlob(br, normalizePath(CollectionByName(collection).path),
                        CollectionByName(collection).format))

\* the store that a full index of the bridge describes: the three config
\* records, a primary record per globbed path, an entry per globbed path in
\* every index of its collection
ExpectedKeys(br) ==
    {<<RootSublevel, k>> : k \in ConfigKeys}
    \cup UNION {
          {<<RootSublevel, p>> : p \in GlobbedPaths(br, collection)}
          \cup UNION {
                {<<IndexSublevel(collection, definition.sort),
                   IndexKey(definition, parseFile(br[p]), p)>> :
                     p \in GlobbedPaths(br, collection)} :
                definition \in IndexesOf(collection)} :
          collection \in CollectionNames}

ExpectedIndexedLevel(br, args) ==
    [k \in ExpectedKeys(br) |->
        IF k[1] # RootSublevel THEN EmptyMarker
        ELSE IF k[2] = GeneratedPath("_graphql.json") THEN args.graphQLSchema
        ELSE IF k[2] = GeneratedPath("_schema.json") THEN args.tinaSchema
        ELSE IF k[2] = GeneratedPath("_lookup.json")
        THEN parseFile(br[GeneratedPath("_lookup.json")])
        ELSE parseFile(br[k[2]])]

\* C9: after indexContent has completed successfully, whatever the store held
\* before, the store is the three generated config records, one primary record
\* for each path bridge.glob returned for a collection and the index entries of
\* those documents, and nothing else.
C9_FullIndexIsExactlyTheBridge ==
    (pc = "idle" /\ last.op = "indexContent" /\ last.status = "ok")
      => level = ExpectedIndexedLevel(bridge, last.args)

\* an indexContent has succeeded on a store that held a document whose file is
\* gone, over a bridge of NumPosts posts
C9_Witness ==
    /\ pc = "idle" /\ last.op = "indexContent" /\ last.status = "ok"
    /\ LevelHas(last.before, RootSublevel, StalePath)
    /\ ~LevelHas(level, RootSublevel, StalePath)
    /\ LevelHas(level, RootSublevel, PostPath(NumPosts))
    /\ LevelHas(level, RootSublevel, HomePath)

\* C10: when indexContent succeeds right after an indexContent that succeeded
\* with the same arguments, it leaves the store as it found it: all sublevels,
\* keys and values.
C10_FullIndexIdempotent ==
    [][ ( /\ cur.op = "indexContent"
          /\ last.op = "indexContent" /\ last.status = "ok"
          /\ last.args = cur.args
          /\ pc' = "idle" /\ last'.status = "ok" )
        => level' = cur.before
      ]_vars

\* a second indexContent has succeeded on the store the first one left, over a
\* bridge that holds posts
C10_Witness ==
    /\ pc = "idle" /\ last.op = "indexContent" /\ last.status = "ok"
    /\ runs = 2
    /\ last.before = level
    /\ LevelHas(level, RootSublevel, PostPath(1))
    /\ LevelGet(last.before, RootSublevel, GeneratedPath("_graphql.json")) = last.args.graphQLSchema

-----------------------------------------------------------------------------
(* get, and the round trip of a document through put and get.             *)

\* the keys get adds to the data it returns
MetadataKeys == {"_collection", "_keepTemplateKey", "_template", "_relativePath", "_id"}

\* filepath.replace(collection.path, '').replace(/^\/|\/$/g, '')
RelativePath(filepath, collection) ==
    LET rest == IF StartsWith(filepath, collection.path)
                THEN SubSeq(filepath, Len(collection.path) + 1, Len(filepath))
                ELSE filepath
        front == IF rest # <<>> /\ Head(rest) = "/" THEN Tail(rest) ELSE rest
    IN  IF front # <<>> /\ front[Len(front)] = "/"
        THEN SubSeq(front, 1, Len(front) - 1) ELSE front

\* const { $_body, ...rest } = contentObject; data[field.name] = $_body
PayloadToBody(contentObject, fieldName) ==
    [k \in ((DOMAIN contentObject) \ {BODY_KEY}) \cup {fieldName} |->
        IF k = fieldName THEN contentObject[BODY_KEY] ELSE contentObject[k]]

\* what get returns for a stored record of a path that a collection owns
GetResult(lv, filepath) ==
    LET contentObject == LevelGet(lv, RootSublevel, normalizePath(filepath))
        collection == CollectionByName(getCollectionByFullPath(filepath))
        field == BodyFieldOf(collection)
        data == IF /\ extname(filepath) \in {".md", ".mdx"}
                   /\ field # <<>>
                   /\ BODY_KEY \in DOMAIN contentObject
                THEN PayloadToBody(contentObject, field[1].name)
                ELSE contentObject
    IN  [k \in (DOMAIN data) \cup MetadataKeys |->
            CASE k = "_collection" -> collection.name
              [] k = "_keepTemplateKey" -> FALSE
              [] k = "_template" -> collection.name
              [] k = "_relativePath" -> RelativePath(filepath, collection)
              [] k = "_id" -> filepath
              [] OTHER -> data[k]]

\* the call made before this one, as get's caller remembers it
PreviousCall ==
    IF last.op = None THEN NoCall
    ELSE [op |-> last.op, status |-> last.status, args |-> last.args]

GetReturn(filepath, status, error, result) ==
    /\ pc' = "idle"
    /\ cur' = Idle
    /\ last' = [op |-> "get", args |-> [op |-> "get", filepath |-> filepath],
                status |-> status, error |-> error, result |-> result,
                prev |-> PreviousCall]

NoResult == [_id |-> <<>>]

\* Database.get
Get(filepath) ==
    /\ pc = "idle"
    /\ IF filepath \in SYSTEM_FILES
       THEN /\ GetReturn(filepath, "error", Error("Unexpected get for config file"),
                         NoResult)
            /\ UNCHANGED faults
       ELSE \E ok \in Outcomes : Injected(ok) /\
              IF ~ok
              THEN GetReturn(filepath, "error", Error("level.get"), NoResult)
              ELSE IF ~LevelHas(level, RootSublevel, normalizePath(filepath))
              THEN GetReturn(filepath, "error",
                             IF notFoundThrows THEN Error("LEVEL_NOT_FOUND")
                             ELSE Error("Unable to find record"),
                             NoResult)
              ELSE IF getCollectionByFullPath(filepath) = Undefined
              THEN GetReturn(filepath, "error", TypeError, NoResult)
              ELSE GetReturn(filepath, "ok", NoError, GetResult(level, filepath))
    /\ UNCHANGED <<bridge, level, operations, events, trail, notFoundThrows, runs, memo>>

NotePath == <<"notes", "/", "n", ".md">>
RawNotePath == <<"notes", "\\", "n", ".md">>
NoteJsonPath == <<"notes", "/", "n", ".json">>
DataPath == <<"data", "/", "d", ".json">>
DataMdPath == <<"data", "/", "d", ".md">>

\* the paths written and read: every pairing of a markdown or json collection
\* with a markdown or json file name
GetPaths == {NotePath, RawNotePath, NoteJsonPath, DataPath, DataMdPath}

NoteDatas == { [title |-> <<"T">>, body |-> <<"B1">>] }

NextGet ==
    \/ \E filepath \in GetPaths : \E data \in NoteDatas :
         PutStart(filepath, data, collectionForPath(filepath))
    \/ PutBridge
    \/ PutRead
    \/ PutBatch
    \/ \E filepath \in GetPaths : Get(filepath)

SpecGet == Init /\ [][NextGet]_vars

StripMetadata(result) == [k \in (DOMAIN result) \ MetadataKeys |-> result[k]]

\* C11: when put(p, d, C) has succeeded, the get(p) that follows returns d: the
\* fields of d under their declared names with their values, and beside them
\* only the metadata fields that get adds; for every pairing of the
\* collection's format and the extension of p.
C11_GetReturnsWhatPutStored ==
    ( /\ pc = "idle" /\ faults = 0
      /\ last.op = "get"
      /\ last.prev.op = "put" /\ last.prev.status = "ok"
      /\ last.prev.args.filepath = last.args.filepath )
    => /\ last.status = "ok"
       /\ StripMetadata(last.result) = last.prev.args.data

-----------------------------------------------------------------------------
(* The order of keys in a sublevel: bytewise, here token by token.        *)

MAX_BYTE == "\\xFF"
\* a character above \xFF: U+0141, the first letter of a title
ABOVE_MAX_BYTE == "\\u0141"

\* the tokens of keys in ascending byte order
TokenOrder ==
    << INDEX_KEY_FIELD_SEPARATOR, ".json", ".md", ".tina", "/",
       "0", "1", "2", "3", "4", "5", "6", "7", "8", "9",
       "A", "Home", "Notes", "Old", "T",
       "__generated__", "_graphql.json", "_lookup.json", "_schema.json",
       "a", "b", "c", "d", "data", "e", "f", "g", "h", "home", "misc",
       "n", "notes", "old", "pages", "posts", MAX_BYTE, ABOVE_MAX_BYTE >>

TokenRank(t) == CHOOSE i \in 1..Len(TokenOrder) : TokenOrder[i] = t

\* a < b in the order of the store
RECURSIVE KeyLess(_, _)
KeyLess(a, b) ==
    IF b = <<>> THEN FALSE
    ELSE IF a = <<>> THEN TRUE
    ELSE IF Head(a) = Head(b) THEN KeyLess(Tail(a), Tail(b))
    ELSE TokenRank(Head(a)) < TokenRank(Head(b))

KeyLessEq(a, b) == a = b \/ KeyLess(a, b)

\* a set of keys in ascending order
RECURSIVE SortKeys(_)
SortKeys(keys) ==
    IF keys = {} THEN <<>>
    ELSE LET least == CHOOSE k \in keys : \A other \in keys : KeyLessEq(k, other)
         IN  <<least>> \o SortKeys(keys \ {least})

Reverse(s) == [i \in 1..Len(s) |-> s[Len(s) + 1 - i]]

\* a bound of an iterator that is not set
Unset == <<>>

\* sublevel.iterator(query): the keys within the bounds, ascending or, with
\* reverse, descending
Iterator(lv, sublevel, query) ==
    LET within(k) ==
            /\ query.gt = Unset \/ KeyLess(query.gt[1], k)
            /\ query.gte = Unset \/ KeyLessEq(query.gte[1], k)
            /\ query.lt = Unset \/ KeyLess(k, query.lt[1])
            /\ query.lte = Unset \/ KeyLessEq(k, query.lte[1])
        ascending == SortKeys({k \in SublevelKeys(lv, sublevel) : within(k)})
    IN  IF query.reverse THEN Reverse(ascending) ELSE ascending

\* btoa and atob of ../util: a reversible text form of a key; the empty key has
\* the empty text
btoa(key) == IF key = <<>> THEN <<>> ELSE <<"base64">> \o key
atob(cursor) == IF cursor = <<>> THEN <<>> ELSE Tail(cursor)

-----------------------------------------------------------------------------
(* The filter engine of ./datalayer. A filter chain is a list of clauses   *)
(* [field, type, op, value], a conjunction.                                *)

FilterOps == {"eq", "startsWith", "gt", "gte", "lt", "lte"}

\* the position of a named field in an index definition, or 0
IndexOfField(fields, name) ==
    IF \E i \in 1..Len(fields) : fields[i].name = name
    THEN CHOOSE i \in 1..Len(fields) : fields[i].name = name
    ELSE 0

\* orderedFilterChain[slot]: the last clause of the chain on the field of the
\* slot, as a list of at most one clause
SlotClause(filterChain, fields, slot) ==
    LET hits == {i \in 1..Len(filterChain) : filterChain[i].field = fields[slot].name}
    IN  IF hits = {} THEN <<>>
        ELSE <<filterChain[CHOOSE i \in hits : \A j \in hits : j <= i]>>

\* the operand of a clause as the codec writes it in a key of the index
EncodedOperand(clause, field) ==
    applyPadding(EncodeFieldValue([type |-> clause.type], clause.value), field.pad)

RECURSIVE JoinFragments(_)
JoinFragments(fragments) ==
    IF fragments = <<>> THEN <<>>
    ELSE IF Len(fragments) = 1 THEN fragments[1]
    ELSE fragments[1] \o <<INDEX_KEY_FIELD_SEPARATOR>> \o JoinFragments(Tail(fragments))

NoSuffixes == [defined |-> FALSE, left |-> Unset, right |-> Unset]

\* makeFilterSuffixes: the encoded prefixes that bound the scan of an index,
\* left and right as lists of at most one prefix; not defined when a clause
\* names a field outside the index, when the clauses leave a slot of the
\* index open before a filled one, or when a slot before the last one of the
\* index carries another operator than eq
makeFilterSuffixes(filterChain, definition) ==
    LET fields == definition.fields
        n == Len(fields)
        filled == {slot \in 1..n : SlotClause(filterChain, fields, slot) # <<>>}
        m == Cardinality(filled)
        clauseAt(slot) == SlotClause(filterChain, fields, slot)[1]
        nbase == IF m < n THEN m ELSE n - 1
        baseFragments == [slot \in 1..nbase |-> EncodedOperand(clauseAt(slot), fields[slot])]
        lastOperand == EncodedOperand(clauseAt(n), fields[n])
        leftSuffix == IF m = n /\ clauseAt(n).op \notin {"lt", "lte"}
                      THEN <<lastOperand>> ELSE Unset
        rightSuffix == IF m = n /\ clauseAt(n).op \notin {"gt", "gte"}
                       THEN <<lastOperand>> ELSE Unset
        joined(suffix) ==
            IF nbase = 0 THEN suffix
            ELSE << JoinFragments(baseFragments) \o <<INDEX_KEY_FIELD_SEPARATOR>>
                      \o (IF suffix = Unset THEN <<>> ELSE suffix[1]) >>
    IN
    IF filterChain = <<>> THEN [defined |-> TRUE, left |-> Unset, right |-> Unset]
    ELSE IF \E i \in 1..Len(filterChain) : IndexOfField(fields, filterChain[i].field) = 0
    THEN NoSuffixes
    ELSE IF filled # 1..m THEN NoSuffixes
    ELSE IF \E slot \in 1..nbase : clauseAt(slot).op # "eq" THEN NoSuffixes
    ELSE [defined |-> TRUE, left |-> joined(leftSuffix), right |-> joined(rightSuffix)]

RECURSIVE ParseNumber(_)
ParseNumber(tokens) ==
    IF tokens = <<>> THEN 0
    ELSE 10 * ParseNumber(SubSeq(tokens, 1, Len(tokens) - 1))
         + ((CHOOSE d \in 1..10 : DigitTok[d] = tokens[Len(tokens)]) - 1)

\* the value of a field as the filter compares it: a record carries the value
\* itself, the groups of a decoded key carry its text
CoerceValue(type, value, form) ==
    IF form = "record" THEN value
    ELSE CASE type = "number" -> ParseNumber(value)
           [] type = "boolean" -> value = <<"1">>
           [] OTHER -> value

ValueLess(type, a, b) ==
    IF type = "number" THEN a < b ELSE KeyLess(a, b)

ClauseHolds(clause, value) ==
    CASE clause.op = "eq" -> value = clause.value
      [] clause.op = "startsWith" -> StartsWith(value, clause.value)
      [] clause.op = "gt" -> ValueLess(clause.type, clause.value, value)
      [] clause.op = "gte" -> value = clause.value \/ ValueLess(clause.type, clause.value, value)
      [] clause.op = "lt" -> ValueLess(clause.type, value, clause.value)
      [] clause.op = "lte" -> value = clause.value \/ ValueLess(clause.type, value, clause.value)

\* makeFilter({filterChain}): every clause holds of the subject; a clause on a
\* field the subject does not carry does not hold
itemFilter(filterChain, subject) ==
    \A i \in 1..Len(filterChain) :
        /\ filterChain[i].field \in DOMAIN subject.fields
        /\ ClauseHolds(filterChain[i],
                       CoerceValue(filterChain[i].type,
                                   subject.fields[filterChain[i].field],
                                   subject.form))

\* valuesRegex.exec(key): the groups of ^(.+)SEP ... SEP(.+) in a key, every
\* group as long as the ones after it allow and none empty; a list of at most
\* one list of groups
RECURSIVE MatchGroups(_, _)
MatchGroups(key, nfields) ==
    IF nfields = 0 THEN (IF key = <<>> THEN <<>> ELSE << <<key>> >>)
    ELSE LET cuts == {p \in 2..Len(key) :
                        /\ key[p] = INDEX_KEY_FIELD_SEPARATOR
                        /\ MatchGroups(SubSeq(key, p + 1, Len(key)), nfields - 1) # <<>>}
         IN  IF cuts = {} THEN <<>>
             ELSE LET p == CHOOSE c \in cuts : \A other \in cuts : other <= c
                  IN  << <<SubSeq(key, 1, p - 1)>>
                           \o MatchGroups(SubSeq(key, p + 1, Len(key)), nfields - 1)[1] >>

-----------------------------------------------------------------------------
(* query. The options first, last, after, before and sort are lists of at  *)
(* most one value: the empty list is an option the caller left out.        *)

DEFAULT_LIMIT == 50
UNLIMITED == 0 - 1

\* the truth value JavaScript gives an optional number or an optional text
TruthyNumber(option) == option # Unset /\ option[1] # 0
TruthyText(option) == option # Unset /\ option[1] # <<>>

\* the hydrator of the caller: the node of a path
hydrator(path) == [_id |-> path]

\* the definition of a sort key in the table of a collection, as a list of at
\* most one definition
DefinitionOfSort(indexDefinitions, sort) ==
    SelectSeq(indexDefinitions, LAMBDA definition : definition.sort = sort)

NoFields == [name \in {} |-> <<>>]

\* matcher.groups: the decoded groups by name
GroupsSubject(fields, groups) ==
    [form |-> "groups",
     fields |-> [name \in {fields[i].name : i \in 1..Len(fields)} \cup {"_filepath_"} |->
                    IF name = "_filepath_" THEN groups[Len(groups)]
                    ELSE groups[IndexOfField(fields, name)]]]

\* a stored value as the subject of the filter; a config record has no fields
RecordSubject(key, value) ==
    [form |-> "record", fields |-> IF key \in ConfigKeys THEN NoFields ELSE value]

\* the subject of the filter for one entry, from the decoded groups only
SubjectOf_AlwaysGroups(plan, key, groups) == GroupsSubject(plan.fields, groups)

\* the subject of the filter for one entry: the decoded groups when the filter
\* is planned on the index, else the primary record of the path, else (in a
\* scan of the root sublevel) the value of the entry
SubjectOf(plan, key, groups) ==
    LET filepath == groups[Len(groups)] IN
    IF plan.useGroups THEN GroupsSubject(plan.fields, groups)
    ELSE IF plan.indexed
    THEN IF LevelHas(plan.level, RootSublevel, filepath)
         THEN RecordSubject(filepath, LevelGet(plan.level, RootSublevel, filepath))
         ELSE [form |-> "record", fields |-> NoFields]
    ELSE RecordSubject(key, LevelGet(plan.level, RootSublevel, key))

NoPage ==
    [edges |-> <<>>, startKey |-> <<>>, endKey |-> <<>>,
     hasPreviousPage |-> FALSE, hasNextPage |-> FALSE, error |-> <<>>]

\* the loop over the iterator: plan is what the loop reads, page what it has
\* built so far
RECURSIVE Scan(_, _, _)
Scan(plan, keys, page) ==
    IF keys = <<>> THEN page
    ELSE
    LET key == Head(keys)
        matcher == MatchGroups(key, Len(plan.fields))
    IN
    IF matcher = <<>> \/ (plan.indexed /\ Len(matcher[1]) + 1 # Len(plan.fields) + 2)
    THEN Scan(plan, Tail(keys), page)
    ELSE
    LET groups == matcher[1]
        filepath == groups[Len(groups)]
        missing == /\ ~plan.useGroups /\ plan.indexed
                   /\ ~LevelHas(plan.level, RootSublevel, filepath)
        subject == SubjectOf(plan, key, groups)
    IN
    IF missing /\ plan.notFoundThrows
    THEN [page EXCEPT !.error = <<Error("LEVEL_NOT_FOUND")>>]
    ELSE IF ~itemFilter(plan.filterChain, subject) THEN Scan(plan, Tail(keys), page)
    ELSE IF plan.limit # UNLIMITED /\ Len(page.edges) >= plan.limit
    THEN IF plan.reverse THEN [page EXCEPT !.hasPreviousPage = TRUE]
         ELSE [page EXCEPT !.hasNextPage = TRUE]
    ELSE Scan(plan, Tail(keys),
              [page EXCEPT !.startKey = IF page.startKey # <<>> THEN page.startKey ELSE key,
                           !.endKey = key,
                           !.edges = Append(page.edges, [cursor |-> key, path |-> filepath])])

\* the sublevel a query scans
QuerySublevel(queryOptions) ==
    LET sort == IF queryOptions.sort = Unset THEN DEFAULT_COLLECTION_SORT_KEY
                ELSE queryOptions.sort[1]
    IN  IF DefinitionOfSort(getIndexDefinitions[queryOptions.collection], sort) # <<>>
        THEN IndexSublevel(queryOptions.collection, sort)
        ELSE RootSublevel

\* the bounds with the after cursor taken as an inclusive lower bound
QueryBounds_AfterInclusive(queryOptions, filterSuffixes) ==
    LET gte == IF TruthyText(queryOptions.after) THEN <<atob(queryOptions.after[1])>>
               ELSE IF TruthyText(filterSuffixes.left) THEN filterSuffixes.left
               ELSE << <<>> >>
        lt == IF ~TruthyText(queryOptions.after) /\ TruthyText(queryOptions.before)
              THEN <<atob(queryOptions.before[1])>> ELSE Unset
    IN  [reverse |-> TruthyNumber(queryOptions.last),
         gt |-> Unset,
         lt |-> lt,
         gte |-> gte,
         lte |-> IF TruthyText(lt) THEN Unset
                 ELSE IF TruthyText(filterSuffixes.right)
                 THEN <<filterSuffixes.right[1] \o <<MAX_BYTE>> >>
                 ELSE << <<MAX_BYTE>> >>]

HydratorError == Error("hydrator")

TinaQueryError(originalError, file, collection) ==
    [name |-> "TinaQueryError", originalError |-> originalError,
     file |-> file, collection |-> collection]

\* what query throws when the hydrator fails: sequential() hydrates the edges
\* in order, so the first edge the hydrator fails for decides; its error is
\* wrapped unless the path of the edge includes .tina/__generated__/_graphql.json
HydrationError(edges, failing, collection) ==
    LET first == CHOOSE i \in 1..Len(edges) :
                    /\ edges[i].path \in failing
                    /\ \A j \in 1..(i - 1) : edges[j].path \notin failing
        path == edges[first].path
    IN  IF EndsWith(path, GeneratedPath("_graphql.json")) THEN HydratorError
        ELSE TinaQueryError(HydratorError, path, collection)

\* the query handed to the iterator: the direction, gt from the after cursor
\* or else lt from the before cursor, and on each side that has no cursor the
\* prefix of the filter or the end of the sublevel
QueryBounds(queryOptions, filterSuffixes) ==
    LET gt == IF TruthyText(queryOptions.after) THEN <<atob(queryOptions.after[1])>>
              ELSE Unset
        lt == IF ~TruthyText(queryOptions.after) /\ TruthyText(queryOptions.before)
              THEN <<atob(queryOptions.before[1])>> ELSE Unset
    IN  [reverse |-> TruthyNumber(queryOptions.last),
         gt |-> gt,
         lt |-> lt,
         gte |-> IF TruthyText(gt) THEN Unset
                 ELSE IF TruthyText(filterSuffixes.left) THEN filterSuffixes.left
                 ELSE << <<>> >>,
         lte |-> IF TruthyText(lt) THEN Unset
                 ELSE IF TruthyText(filterSuffixes.right)
                 THEN <<filterSuffixes.right[1] \o <<MAX_BYTE>> >>
                 ELSE << <<MAX_BYTE>> >>]

\* query(queryOptions, hydrator) on a store: [status, error, result]
query(lv, queryOptions, throws, failing) ==
    IF queryOptions.collection \notin CollectionNames
    THEN [status |-> "error", error |-> Error("No indexDefinitions for collection"),
          result |-> NoPage]
    ELSE
    LET sort == IF queryOptions.sort = Unset THEN DEFAULT_COLLECTION_SORT_KEY
                ELSE queryOptions.sort[1]
        limit == IF TruthyNumber(queryOptions.first) THEN queryOptions.first[1]
                 ELSE IF TruthyNumber(queryOptions.last) THEN queryOptions.last[1]
                 ELSE DEFAULT_LIMIT
        indexDefinitions == getIndexDefinitions[queryOptions.collection]
        indexDefinition == DefinitionOfSort(indexDefinitions, sort)
        filterSuffixes == IF indexDefinition = <<>> THEN NoSuffixes
                          ELSE makeFilterSuffixes(queryOptions.filterChain, indexDefinition[1])
        sublevel == IF indexDefinition # <<>> THEN IndexSublevel(queryOptions.collection, sort)
                    ELSE RootSublevel
        bounds == QueryBounds(queryOptions, filterSuffixes)
        plan == [level |-> lv,
                 notFoundThrows |-> throws,
                 indexed |-> indexDefinition # <<>>,
                 fields |-> IF indexDefinition = <<>> THEN <<>> ELSE indexDefinition[1].fields,
                 useGroups |-> filterSuffixes.defined,
                 filterChain |-> queryOptions.filterChain,
                 limit |-> limit,
                 reverse |-> bounds.reverse]
        page == Scan(plan, Iterator(lv, sublevel, bounds), NoPage)
    IN
    IF page.error # <<>>
    THEN [status |-> "error", error |-> page.error[1], result |-> NoPage]
    ELSE IF \E i \in 1..Len(page.edges) : page.edges[i].path \in failing
    THEN [status |-> "error",
          error |-> HydrationError(page.edges, failing, queryOptions.collection),
          result |-> NoPage]
    ELSE [status |-> "ok", error |-> NoError,
          result |-> [edges |-> [i \in 1..Len(page.edges) |->
                                    [node |-> hydrator(page.edges[i].path),
                                     cursor |-> btoa(page.edges[i].cursor)]],
                      pageInfo |-> [hasPreviousPage |-> page.hasPreviousPage,
                                    hasNextPage |-> page.hasNextPage,
                                    startCursor |-> btoa(page.startKey),
                                    endCursor |-> btoa(page.endKey)]]]

-----------------------------------------------------------------------------
(* query as a system: a store that holds NumQueryDocs posts and one page   *)
(* with all their index entries, a caller that asks one query and then     *)
(* pages forward with the end cursor of the page it got.                   *)

QueryRanks == <<5, 2, 9, 2, 7, 3, 8, 1>>

QueryDataOf(i) ==
    [rank |-> QueryRanks[i],
     title |-> IF i % 2 = 0 THEN <<"A">> ELSE <<"T">>,
     draft |-> (i % 3 = 0)]

DocumentOps(filepath, collection, data) ==
    makeIndexOpsForDocument(filepath, collection, IndexDefinitionsOf(collection),
                            data, "put")
    \o <<PrimaryOp("put", filepath, data)>>

\* the store after a full index of NumQueryDocs posts and the home page
QueryStore ==
    LevelBatch(IndexedEmptyLevel,
        Flatten([i \in 1..NumQueryDocs |-> DocumentOps(PostPath(i), "posts", QueryDataOf(i))])
        \o DocumentOps(HomePath, "pages", [title |-> <<"Home">>]))

QueryChains ==
    { <<>>,
      << [field |-> "rank", type |-> "number", op |-> "gte", value |-> 5] >>,
      << [field |-> "draft", type |-> "boolean", op |-> "eq", value |-> FALSE] >>,
      << [field |-> "draft", type |-> "boolean", op |-> "eq", value |-> FALSE],
         [field |-> "rank", type |-> "number", op |-> "gte", value |-> 2] >>,
      << [field |-> "title", type |-> "string", op |-> "eq", value |-> <<"A">>] >>,
      << [field |-> "rank", type |-> "number", op |-> "gte", value |-> 2],
         [field |-> "rank", type |-> "number", op |-> "lt", value |-> 9] >> }

\* a collection that the schema does not have
UnknownCollection == "authors"
\* a sort key that no collection has
UnknownSort == "nosuch"

QueryCollections == {"posts", "pages", UnknownCollection}
QuerySorts == {Unset, <<"rank">>, <<"byDraftRank">>, <<UnknownSort>>}
QueryFirsts == {Unset, <<0>>, <<1>>, <<2>>, <<UNLIMITED>>}
QueryLasts == {Unset, <<0>>, <<2>>}

\* the cursors a caller holds: of the entries of the first and of the third
\* post, and of the page, in the sublevel the query scans
CursorsOf(lv, sublevel, paths) ==
    { <<btoa(k)>> : k \in {key \in SublevelKeys(lv, sublevel) :
                            \E p \in paths : EndsWith(key, p)} }

AfterPaths == {PostPath(1), PostPath(2), HomePath}
BeforePaths == {PostPath(3)}

QueryOptionsOf(lv, r) ==
    LET base == [collection |-> r[1], sort |-> r[2], filterChain |-> r[3],
                 first |-> r[4], last |-> r[5], after |-> Unset, before |-> Unset]
        sublevel == IF r[1] \in CollectionNames THEN QuerySublevel(base) ELSE RootSublevel
    IN  { [base EXCEPT !.after = after, !.before = before] :
            after \in {Unset} \cup CursorsOf(lv, sublevel, AfterPaths),
            before \in {Unset} \cup CursorsOf(lv, sublevel, BeforePaths) }

QueryRequests(lv) ==
    UNION { QueryOptionsOf(lv, r) :
              r \in (QueryCollections) \X QuerySorts
                       \X QueryChains \X QueryFirsts \X QueryLasts }

\* the requests without filter, cursors and limits, for which the hydrator of
\* the caller may fail, and the paths it fails for
PlainRequests ==
    { [collection |-> c, sort |-> sort, filterChain |-> <<>>, first |-> Unset,
       last |-> Unset, after |-> Unset, before |-> Unset] :
        c \in {"posts", "pages"}, sort \in QuerySorts }
FailingPaths == ConfigKeys \cup {PostPath(2), HomePath}

NoPrior == [paged |-> FALSE]

InitQuery ==
    /\ bridge = EmptyBridge
    /\ level = QueryStore
    /\ pc = "query"
    /\ cur \in {[op |-> "query", queryOptions |-> q, failing |-> {}] :
                  q \in QueryRequests(QueryStore)}
             \cup {[op |-> "query", queryOptions |-> q, failing |-> {p}] :
                     q \in PlainRequests, p \in FailingPaths}
    /\ operations = <<>>
    /\ events = <<>>
    /\ last = NoCall
    /\ trail = <<>>
    /\ notFoundThrows \in BOOLEAN
    /\ faults = 0
    /\ runs = 0
    /\ memo = NoMemo

QueryReturn(queryOptions, outcome, failing, prior) ==
    /\ pc' = "idle"
    /\ cur' = Idle
    /\ last' = [op |-> "query", args |-> queryOptions, status |-> outcome.status,
                error |-> outcome.error, result |-> outcome.result,
                failing |-> failing, prior |-> prior]
    /\ UNCHANGED <<bridge, level, operations, events, trail, notFoundThrows, faults, runs, memo>>

\* the caller's query runs
Query ==
    /\ pc = "query"
    /\ QueryReturn(cur.queryOptions,
                   query(level, cur.queryOptions, notFoundThrows, cur.failing),
                   cur.failing, NoPrior)

\* the caller asks the same query again, after the end cursor of the page
\* that said it has a next page
QueryNextPage ==
    /\ pc = "idle"
    /\ last.op = "query" /\ last.status = "ok"
    /\ last.result.pageInfo.hasNextPage
    /\ LET queryOptions == [last.args EXCEPT !.after = <<last.result.pageInfo.endCursor>>]
       IN  QueryReturn(queryOptions, query(level, queryOptions, notFoundThrows, {}), {},
                       [paged |-> TRUE, args |-> last.args, result |-> last.result])

NextQuery == Query \/ QueryNextPage

SpecQuery == InitQuery /\ [][NextQuery]_vars

-----------------------------------------------------------------------------
(* The claims about query.                                                 *)

QueryReturned == pc = "idle" /\ last.op = "query" /\ last.status = "ok"

\* the sort key of the query names an index of its collection
SortNamesIndex(queryOptions) ==
    /\ queryOptions.collection \in CollectionNames
    /\ QuerySublevel(queryOptions) # RootSublevel

\* the keys of the edges of a result, in the order of the edges
EdgeKeys(result) == [i \in 1..Len(result.edges) |-> atob(result.edges[i].cursor)]

\* C12: the edges of a query are entries of the index sublevel of its sort
\* key, in ascending key order when last is not given and in descending key
\* order when last is given; no entry is returned twice.
C12_EdgesFollowKeyOrder ==
    (QueryReturned /\ SortNamesIndex(last.args))
    => LET keys == EdgeKeys(last.result) IN
       /\ \A i \in 1..Len(keys) :
            keys[i] \in SublevelKeys(level, QuerySublevel(last.args))
       /\ \A i, j \in 1..Len(keys) :
            i < j => IF last.args.last = Unset THEN KeyLess(keys[i], keys[j])
                     ELSE KeyLess(keys[j], keys[i])

\* the path at the end of a key of the store
PathOfKey(lv, key) ==
    CHOOSE p \in SublevelKeys(lv, RootSublevel) : EndsWith(key, p)

\* the document of a path satisfies every clause of a filter chain
DocumentSatisfies(lv, filepath, filterChain) ==
    itemFilter(filterChain,
               RecordSubject(filepath, LevelGet(lv, RootSublevel, filepath)))

\* the matching entries of a query: the keys of the sublevel it scans whose
\* documents satisfy the filter chain
MatchingKeys(lv, queryOptions) ==
    {k \in SublevelKeys(lv, QuerySublevel(queryOptions)) :
        DocumentSatisfies(lv, PathOfKey(lv, k), queryOptions.filterChain)}

\* the caller has asked for the page after a page that has a next page
PagedForward ==
    /\ QueryReturned
    /\ last.prior.paged
    /\ last.args = [last.prior.args EXCEPT
                      !.after = <<last.prior.result.pageInfo.endCursor>>]

EffectiveLimit(queryOptions) ==
    IF queryOptions.first # Unset THEN queryOptions.first[1]
    ELSE IF queryOptions.last # Unset THEN queryOptions.last[1]
    ELSE DEFAULT_LIMIT

\* C14: a query returns at most as many edges as its effective limit, which is
\* first when first is given (0 included), else last when last is given, else
\* 50; the limit -1 is no limit.
C14_EdgesWithinLimit ==
    QueryReturned
    => \/ EffectiveLimit(last.args) = UNLIMITED
       \/ Len(last.result.edges) <= EffectiveLimit(last.args)

\* the entries of the range a query scans that are decoded and pass the filter
PassingEntries(lv, queryOptions) ==
    LET definition == DefinitionOfSort(getIndexDefinitions[queryOptions.collection],
                          IF queryOptions.sort = Unset THEN DEFAULT_COLLECTION_SORT_KEY
                          ELSE queryOptions.sort[1])
        filterSuffixes == IF definition = <<>> THEN NoSuffixes
                          ELSE makeFilterSuffixes(queryOptions.filterChain, definition[1])
        scanned == Iterator(lv, QuerySublevel(queryOptions),
                            QueryBounds(queryOptions, filterSuffixes))
    IN  SelectSeq(scanned,
                  LAMBDA k : DocumentSatisfies(lv, PathOfKey(lv, k), queryOptions.filterChain))

\* more entries pass than the limit of the query allows
MorePassThanLimit(lv, queryOptions) ==
    /\ EffectiveLimit(queryOptions) # UNLIMITED
    /\ Len(PassingEntries(lv, queryOptions)) > EffectiveLimit(queryOptions)

\* C15: in a forward query (last not given) hasNextPage says that more entries
\* of the scanned range pass decoding and filter than the limit allows, and
\* hasPreviousPage is false; in a reverse query (last given) hasPreviousPage
\* says so and hasNextPage is false.
C15_PageFlags ==
    QueryReturned
    => LET more == MorePassThanLimit(level, last.args)
           pageInfo == last.result.pageInfo
       IN  IF last.args.last = Unset
           THEN pageInfo.hasNextPage = more /\ ~pageInfo.hasPreviousPage
           ELSE pageInfo.hasPreviousPage = more /\ ~pageInfo.hasNextPage

\* C16: a query that is given an after cursor and a before cursor returns only
\* entries strictly above the key of the after cursor and strictly below the
\* key of the before cursor.
C16_BothCursorsBound ==
    (QueryReturned /\ last.args.after # Unset /\ last.args.before # Unset)
    => \A i \in 1..Len(last.result.edges) :
          /\ KeyLess(atob(last.args.after[1]), EdgeKeys(last.result)[i])
          /\ KeyLess(EdgeKeys(last.result)[i], atob(last.args.before[1]))

\* C17: a query on a collection whose sort key names no index of it scans the
\* default index of the collection: every edge is a document of the
\* collection (none of another collection, no config record), in path order.
C17_UnknownSortScansCollection ==
    ( /\ QueryReturned
      /\ last.args.collection \in CollectionNames
      /\ ~SortNamesIndex(last.args) )
    => LET edges == last.result.edges IN
       /\ \A i \in 1..Len(edges) :
            edges[i].node \in {hydrator(p) :
                                 p \in PrimaryRecordsOf(level, last.args.collection)}
       /\ \A i, j \in 1..Len(edges) :
            i < j => KeyLess(edges[i].node._id, edges[j].node._id)

-----------------------------------------------------------------------------
(* The caches of the instance: the stored schema changes (a full index     *)
(* writes _schema.json), callers read the schema, the lookup and the index *)
(* definitions through the caches, and clearCache resets caches.           *)

ArticlesCollection ==
    [name |-> "articles", path |-> <<"articles">>, format |-> "md",
     fields |-> << [name |-> "title", type |-> "string", indexed |-> "undefined"],
                   [name |-> "body", type |-> "rich-text", indexed |-> "undefined"],
                   [name |-> "meta", type |-> "object", indexed |-> "undefined"],
                   [name |-> "hidden", type |-> "string", indexed |-> "false"],
                   [name |-> "rank", type |-> "number", indexed |-> "true"] >>,
     indexes |-> << >>]

\* posts without the index by rank and without the composite index
PlainPostsCollection ==
    [name |-> "posts", path |-> <<"posts">>, format |-> "md",
     fields |-> << [name |-> "rank", type |-> "number", indexed |-> "false"],
                   [name |-> "title", type |-> "string", indexed |-> "undefined"] >>,
     indexes |-> << >>]

\* the schemas a full index stores, each the list of its collections
StoredSchemas ==
    { <<PostsCollection, PagesCollection>>,
      <<PlainPostsCollection, PagesCollection>>,
      <<ArticlesCollection, PostsCollection>> }

Lookups == {"lookup", "lookup2"}

SchemaPath == GeneratedPath("_schema.json")
LookupPath == GeneratedPath("_lookup.json")

\* createSchema({schema}) of @tinacms/schema-tools: the TinaSchema of a stored
\* schema
createSchema(schema) == [schema |-> [collections |-> schema]]
\* tinaSchema.getCollections()
CollectionsOf(tinaSchema) == tinaSchema.schema.collections

\* the table getIndexDefinitions builds from a schema: collection name ->
\* index definitions
IndexDefinitionsOfSchema(tinaSchema) ==
    LET collections == CollectionsOf(tinaSchema) IN
    [name \in {collections[i].name : i \in 1..Len(collections)} |->
        CollectionIndexDefinitions(
            collections[CHOOSE i \in 1..Len(collections) : collections[i].name = name])]

\* getSchema: the cached schema, or the stored one, which is then cached
SchemaOf(lv, caches) ==
    IF caches.tinaSchema # <<>> THEN caches.tinaSchema[1]
    ELSE createSchema(LevelGet(lv, RootSublevel, SchemaPath))

InitSchema ==
    /\ bridge = EmptyBridge
    /\ level \in {LevelBatch(EmptyLevel, ConfigOps("graphql", schema, "lookup")) :
                    schema \in StoredSchemas}
    /\ pc = "idle"
    /\ cur = Idle
    /\ operations = <<>>
    /\ events = <<>>
    /\ last = NoCall
    /\ trail = <<>>
    /\ notFoundThrows = TRUE
    /\ faults = 0
    /\ runs = 0
    /\ memo = NoMemo

\* a full index stores another schema and another lookup
StoreSchema(schema, lookup) ==
    /\ pc = "idle"
    /\ level' = LevelBatch(level,
                    << PrimaryOp("put", SchemaPath, schema),
                       PrimaryOp("put", LookupPath, lookup) >>)
    /\ last' = [op |-> "indexContent", status |-> "ok"]
    /\ UNCHANGED <<bridge, pc, cur, operations, events, trail, notFoundThrows,
                   faults, runs, memo>>

ClearCache ==
    /\ pc = "idle"
    /\ memo' = [memo EXCEPT !.tinaSchema = <<>>, !._lookup = <<>>]
    /\ last' = [op |-> "clearCache", status |-> "ok"]
    /\ UNCHANGED <<bridge, level, pc, cur, operations, events, trail, notFoundThrows,
                   faults, runs>>

GetSchema ==
    /\ pc = "idle"
    /\ memo' = [memo EXCEPT !.tinaSchema = <<SchemaOf(level, memo)>>]
    /\ last' = [op |-> "getSchema", status |-> "ok", result |-> SchemaOf(level, memo)]
    /\ UNCHANGED <<bridge, level, pc, cur, operations, events, trail, notFoundThrows,
                   faults, runs>>

GetLookup ==
    /\ pc = "idle"
    /\ LET lookup == IF memo._lookup # <<>> THEN memo._lookup[1]
                     ELSE LevelGet(level, RootSublevel, LookupPath)
       IN  /\ memo' = [memo EXCEPT !._lookup = <<lookup>>]
           /\ last' = [op |-> "getLookup", status |-> "ok", result |-> lookup]
    /\ UNCHANGED <<bridge, level, pc, cur, operations, events, trail, notFoundThrows,
                   faults, runs>>

\* getIndexDefinitions: the cached table, or the table built from getSchema(),
\* which is then cached
GetIndexDefinitions ==
    /\ pc = "idle"
    /\ LET cached == memo.collectionIndexDefinitions # <<>>
           schema == SchemaOf(level, memo)
           table == IF cached THEN memo.collectionIndexDefinitions[1]
                    ELSE IndexDefinitionsOfSchema(schema)
       IN  /\ memo' = IF cached THEN memo
                      ELSE [memo EXCEPT !.tinaSchema = <<schema>>,
                                        !.collectionIndexDefinitions = <<table>>]
           /\ last' = [op |-> "getIndexDefinitions", status |-> "ok",
                       caches |-> memo,
                       stored |-> createSchema(LevelGet(level, RootSublevel, SchemaPath)),
                       schema |-> schema,
                       result |-> table]
    /\ UNCHANGED <<bridge, level, pc, cur, operations, events, trail, notFoundThrows,
                   faults, runs>>

NextSchema ==
    \/ \E schema \in StoredSchemas, lookup \in Lookups : StoreSchema(schema, lookup)
    \/ ClearCache
    \/ GetSchema
    \/ GetLookup
    \/ GetIndexDefinitions

SpecSchema == InitSchema /\ [][NextSchema]_vars

\* the definition of a sort key in a table is the single column of a field
IsSingleColumnOf(table, field) ==
    \E i \in 1..Len(table) :
        /\ table[i].sort = field.name
        /\ Len(table[i].fields) = 1
        /\ table[i].fields[1].name = field.name

Indexable(field) ==
    /\ field.type \notin {"object", "rich-text"}
    /\ field.indexed # "false"

\* C19: the table getIndexDefinitions builds holds, for every collection of
\* the schema, the default __filepath__ entry with no fields and a
\* single-column index for every indexable field, and no single-column index
\* for a field of type object, of type rich-text or with indexed = false.
C19_IndexDefinitionsOfIndexableFields ==
    (pc = "idle" /\ last.op = "getIndexDefinitions"
       /\ last.caches.collectionIndexDefinitions = <<>>)
    => LET collections == CollectionsOf(last.schema) IN
       /\ DOMAIN last.result = {collections[i].name : i \in 1..Len(collections)}
       /\ \A i \in 1..Len(collections) :
            LET table == last.result[collections[i].name] IN
            /\ \E d \in 1..Len(table) :
                 table[d].sort = DEFAULT_COLLECTION_SORT_KEY /\ table[d].fields = <<>>
            /\ \A f \in 1..Len(collections[i].fields) :
                 IsSingleColumnOf(table, collections[i].fields[f])
                   <=> Indexable(collections[i].fields[f])

\* C20: clearCache invalidates the table of index definitions: a
\* getIndexDefinitions that finds the schema cache cleared returns the
\* definitions of the schema the store holds now, not a table built from an
\* earlier schema.
C20_ClearCacheInvalidatesDefinitions ==
    (pc = "idle" /\ last.op = "getIndexDefinitions" /\ last.caches.tinaSchema = <<>>)
    => last.result = IndexDefinitionsOfSchema(last.stored)

-----------------------------------------------------------------------------
(* The errors of the write path.                                           *)

\* C21: a put or a delete that fails reports a TinaFetchError that carries
\* the file path, the name of the collection and the original error.
C21_WriteFailuresAreFetchErrors ==
    (pc = "idle" /\ last.op \in {"put", "delete"} /\ last.status = "error")
    => /\ last.error.name = "TinaFetchError"
       /\ last.error.file = last.args.filepath
       /\ last.error.collection = collectionForPath(last.args.filepath)
       /\ last.error.originalError.name = "Error"

\* the hydrator has failed for an edge of the query
HydratorFailed ==
    /\ pc = "idle" /\ last.op = "query"
    /\ last.failing # {}
    /\ last.status = "error"

\* C22: when the hydrator fails for an edge, query throws a TinaQueryError
\* with the path of that edge and the collection, unless the path is one of
\* the generated config files _graphql.json, _schema.json and _lookup.json:
\* then it throws the error of the hydrator itself.
C22_HydratorFailureWrapped ==
    HydratorFailed
    => IF last.failing \subseteq ConfigKeys
       THEN last.error = HydratorError
       ELSE /\ last.error.name = "TinaQueryError"
            /\ last.error.file \in last.failing
            /\ last.error.collection = last.args.collection
            /\ last.error.originalError = HydratorError

-----------------------------------------------------------------------------
(* put and addPendingDocument side by side.                                *)

\* what put(filepath, data, collection) writes, started on a bridge and a
\* store: the bridge after its bridge.put and the ops of its one batch
PutWrites(br, lv, filepath, data, collection) ==
    [bridge |-> BridgePut(br, normalizePath(filepath),
                          stringifyFile(filepath, data).stringifiedFile),
     batch |-> WriteOps(normalizePath(filepath), collection,
                        stringifyFile(filepath, data).payload,
                        ExistingItem(lv, normalizePath(filepath)))]

\* the running call is a put or an addPendingDocument that has written the
\* bridge in this step
WroteBridge(op) ==
    /\ cur.op = op
    /\ pc \in {"put_bridge", "add_bridge"}
    /\ pc' \in {"put_read", "add_read"}

\* the running call is a put or an addPendingDocument that has committed its
\* batch and returned in this step
CommittedBatch(op) ==
    /\ cur.op = op
    /\ pc \in {"put_batch", "add_batch"}
    /\ pc' = "idle" /\ last'.status = "ok"

\* C23: addPendingDocument(p, d) does to the bridge and to the store what
\* put(p, d, c) does, c being the collection that owns p: the same bridge
\* write, the same single batch, the same store and bridge afterwards.
C23_AddPendingDocumentIsPut ==
    [][ \A op \in {"put", "addPendingDocument"} :
          LET owner == getCollectionByFullPath(cur.filepath)
              collection == IF op = "put" THEN cur.collection ELSE owner
              writes == PutWrites(bridge, level, cur.filepath, cur.data, collection)
          IN  /\ (WroteBridge(op) /\ owner # Undefined)
                => /\ bridge' = writes.bridge
                   /\ level' = level
              /\ (CommittedBatch(op) /\ owner # Undefined)
                => /\ level' = LevelBatch(level, writes.batch)
                   /\ bridge' = bridge
                   /\ trail' = << [call |-> "bridge.put",
                                   path |-> normalizePath(cur.filepath)],
                                  [call |-> "level.batch", ops |-> writes.batch] >> ]_vars

\* an addPendingDocument has overwritten a stored post: its batch took the
\* entries of the old record out of the indexes and put those of the new one in
C23_Witness ==
    /\ pc = "idle"
    /\ last.op = "addPendingDocument" /\ last.status = "ok"
    /\ Len(trail) = 2
    /\ trail[2].call = "level.batch"
    /\ \E i \in 1..Len(trail[2].ops) : trail[2].ops[i].type = "del"
    /\ \E i \in 1..Len(trail[2].ops) :
         trail[2].ops[i].type = "put" /\ trail[2].ops[i].sublevel # RootSublevel

-----------------------------------------------------------------------------
(* Documents of no collection in the long-running operations.              *)

\* the entries of the store outside the root sublevel
IndexEntriesOf(lv) == {k \in DOMAIN lv : k[1] # RootSublevel}

\* a by-paths operation on the one path of no collection has returned, no call
\* having rejected
UncollectionedDone(op) ==
    /\ pc = "idle"
    /\ last.op = op
    /\ last.args.documentPaths = <<MiscPath>>
    /\ faults = 0

\* C24: a document of no collection bypasses the indexes in the by-paths
\* operations: indexContentByPaths creates its primary record and no index
\* entry; deleteContentByPaths of a stored one completes without error,
\* removes its primary record and touches no index sublevel.
C24_UncollectionedBypassIndexing ==
    /\ ( UncollectionedDone("indexContentByPaths") /\ last.status = "ok" )
       => /\ LevelHas(level, RootSublevel, MiscPath)
          /\ IndexEntriesOf(level) = IndexEntriesOf(last.before)
    /\ ( UncollectionedDone("deleteContentByPaths")
         /\ LevelHas(last.before, RootSublevel, MiscPath) )
       => /\ last.status = "ok"
          /\ ~LevelHas(level, RootSublevel, MiscPath)
          /\ IndexEntriesOf(level) = IndexEntriesOf(last.before)

\* the first half of C24 alone, which the code keeps
C24_WriteHalf ==
    ( UncollectionedDone("indexContentByPaths") /\ last.status = "ok" )
    => /\ LevelHas(level, RootSublevel, MiscPath)
       /\ IndexEntriesOf(level) = IndexEntriesOf(last.before)

-----------------------------------------------------------------------------
(* The pending-op buffer of the long-running operations.                   *)

RECURSIVE CommittedOps(_)
\* the ops the level.batch calls of the run have received, in order
CommittedOps(calls) ==
    IF calls = <<>> THEN <<>>
    ELSE (IF Head(calls).call = "level.batch" THEN Head(calls).ops ELSE <<>>)
         \o CommittedOps(Tail(calls))

\* every op enqueued so far in the run: those committed, then those waiting
EnqueuedOps(calls, buffer) == CommittedOps(calls) \o buffer

\* a step inside a run of a long-running operation in which no call rejects
RunStep ==
    /\ pc \in {"index", "delete", "final_flush"}
    /\ faults' = faults

\* C25: the buffer of the long-running operations is flushed whenever it holds
\* 25 ops or more: a level.batch call receives at most 25 ops; ops are enqueued
\* only to a buffer of fewer than 25; a flush commits the head of the buffer and
\* keeps the rest, so the ops are committed once and in the order enqueued; and
\* a run that returns successfully leaves the buffer empty.
C25_BufferFlushedInBatches ==
    [][ /\ \A i \in BatchesOf(trail') : Len(trail'[i].ops) \in 1..BATCH_SIZE
        /\ RunStep
           => /\ StartsWith(EnqueuedOps(trail', operations'),
                            EnqueuedOps(trail, operations))
              /\ Len(operations') > Len(operations) => Len(operations) < BATCH_SIZE
              /\ trail' # trail
                 => /\ EnqueuedOps(trail', operations') = EnqueuedOps(trail, operations)
                    /\ Len(trail') = Len(trail) + 1
        /\ (pc' = "idle" /\ last'.op \in LongOpNames /\ last'.status = "ok")
           => operations' = <<>> ]_vars

\* a run has returned successfully after a full batch of 25 and a shorter last one
C25_Witness ==
    /\ pc = "idle"
    /\ last.op \in LongOpNames /\ last.status = "ok"
    /\ Len(trail) >= 2
    /\ Len(trail[1].ops) = BATCH_SIZE
    /\ Len(trail[Len(trail)].ops) < BATCH_SIZE
    /\ operations = <<>>

-----------------------------------------------------------------------------
(* Re-indexing by paths: indexContentByPaths on a store that already holds *)
(* the first post, with the content its file has now or with an older one, *)
(* every index of the collection holding the entry of the stored record.   *)

\* what the store may hold for the first post before its file is indexed again
StoredPostDatas ==
    { PostDataOf(1),
      [rank |-> 9, title |-> <<"Old">>, draft |-> TRUE],
      [rank |-> 9, title |-> <<"A">>, draft |-> FALSE] }

IndexedLevel(data) ==
    LevelBatch(EmptyLevel,
        ConfigOps("graphql0", "schema", "lookup0")
        \o makeIndexOpsForDocument(PostPath(1), "posts", IndexDefinitionsOf("posts"),
                                   data, "put")
        \o <<PrimaryOp("put", PostPath(1), data)>>)

ReindexPathLists == { <<PostPath(1)>>, <<HomePath, PostPath(1)>>, <<PostPath(2)>> }

InitReindex ==
    /\ bridge = BridgeWith(2)
    /\ level \in {IndexedLevel(data) : data \in StoredPostDatas}
    /\ pc = "idle"
    /\ cur = Idle
    /\ operations = <<>>
    /\ events = <<>>
    /\ last = NoCall
    /\ trail = <<>>
    /\ notFoundThrows \in BOOLEAN
    /\ faults = 0
    /\ runs = 0
    /\ memo = NoMemo

NextReindex ==
    \/ \E documentPaths \in ReindexPathLists : IndexContentByPathsStart(documentPaths)
    \/ PartitionPaths
    \/ NextGroup
    \/ IndexDocument
    \/ WrapperComplete
    \/ WrapperFailed
    \/ FinalFlush

SpecReindex == InitReindex /\ [][NextReindex]_vars

\* indexContentByPaths has completed on a path that had a primary record, with
\* its one entry in every index
Reindexed(path) ==
    /\ pc = "idle"
    /\ last.op = "indexContentByPaths" /\ last.status = "ok"
    /\ \E i \in 1..Len(last.args.documentPaths) : last.args.documentPaths[i] = path
    /\ LevelHas(last.before, RootSublevel, path)
    /\ DocumentWhole(last.before, path)

\* the content of the file is not what the primary record held
ContentChanged(path) ==
    parseFile(bridge[path]) # LevelGet(last.before, RootSublevel, path)

\* C26: after indexContentByPaths on a path that has a primary record and whose
\* file has changed, every index of the collection holds exactly one entry for
\* the path, the one encoded from the new content.
C26_ReindexReplacesEntries ==
    \A path \in {PostPath(1)} :
      (Reindexed(path) /\ ContentChanged(path))
      => \A definition \in IndexesOf(collectionForPath(path)) :
           EntriesOfPath(level, collectionForPath(path), definition.sort, path)
             = {IndexKey(definition, parseFile(bridge[path]), path)}

\* the same of a path whose file has not changed, which the code keeps
C26_UnchangedContent ==
    \A path \in {PostPath(1)} :
      (Reindexed(path) /\ ~ContentChanged(path))
      => \A definition \in IndexesOf(collectionForPath(path)) :
           EntriesOfPath(level, collectionForPath(path), definition.sort, path)
             = {IndexKey(definition, parseFile(bridge[path]), path)}

-----------------------------------------------------------------------------
(* delete of a path that has no primary record.                            *)

\* delete reads the store for a path that has no primary record, and the read
\* is not made to fail other than by the key being absent
DeleteReadsNothing ==
    /\ pc = "delete_read"
    /\ ~LevelHas(level, RootSublevel, normalizePath(cur.filepath))
    /\ faults' = faults

\* delete, having issued no batch, calls bridge.delete and the call succeeds
DeleteOnlyInBridge ==
    /\ pc = "delete_bridge"
    /\ trail = <<>>
    /\ faults' = faults

DeleteOfNothing ==
    /\ DeleteReadsNothing
       => /\ pc' = "delete_bridge"
          /\ level' = level
          /\ trail' = <<>>
    /\ DeleteOnlyInBridge
       => /\ pc' = "idle" /\ last'.status = "ok"
          /\ level' = level
          /\ trail' = <<[call |-> "bridge.delete", path |-> normalizePath(cur.filepath)]>>

\* C27: delete of a path that has no primary record, whether the store reports
\* that by an empty value or by the LEVEL_NOT_FOUND error, issues no batch,
\* leaves the store unchanged, calls bridge.delete for the normalized path and
\* returns without error.
C27_DeleteOfMissingRecord == [][DeleteOfNothing]_vars

\* the same for a store that reports a missing key by an empty value, which
\* the code keeps
C27_EmptyValue == [][~notFoundThrows => DeleteOfNothing]_vars

-----------------------------------------------------------------------------
(* Bridge and store after a failed write.                                  *)

\* a put or an addPendingDocument has ended with an error
WriteFailed ==
    /\ pc = "idle"
    /\ last.op \in {"put", "addPendingDocument"}
    /\ last.status = "error"

\* the bridge holds the file of the document the failed call was given
BridgeHoldsNew ==
    LET path == normalizePath(last.args.filepath) IN
    /\ path \in DOMAIN bridge
    /\ bridge[path] = stringifyFile(last.args.filepath, last.args.data).stringifiedFile

\* the primary record of the store is that document
StoreHoldsNew ==
    LET path == normalizePath(last.args.filepath) IN
    /\ LevelHas(level, RootSublevel, path)
    /\ LevelGet(level, RootSublevel, path)
         = stringifyFile(last.args.filepath, last.args.data).payload

\* C28: a put or an addPendingDocument that ends with an error leaves the
\* bridge and the store consistent for the path: the bridge does not hold the
\* new file while the store describes the old document, or none.
C28_FailedWriteConsistent ==
    (WriteFailed /\ BridgeHoldsNew) => StoreHoldsNew

\* the error of the failed call, out of the TinaFetchError of put
FailureOf(error) ==
    IF error.name = "TinaFetchError" THEN error.originalError ELSE error

\* the same of the calls that fail in the bridge write, which the code keeps
C28_FailedBridgeWrite ==
    (WriteFailed /\ FailureOf(last.error) = Error("bridge.put") /\ BridgeHoldsNew)
    => StoreHoldsNew

-----------------------------------------------------------------------------
(* Full scans: queries without filter and cursors on stores whose posts    *)
(* have titles of every shape: plain, beginning with a character above     *)
(* \xFF, containing the separator character, and empty.                    *)

ScanTitles ==
    { <<"A">>,
      <<ABOVE_MAX_BYTE, "a">>,
      <<"A", INDEX_KEY_FIELD_SEPARATOR, "b">>,
      <<>> }

\* the store after a full index of NumScanDocs posts with the given titles
ScanStore(titles) ==
    LevelBatch(IndexedEmptyLevel,
        Flatten([i \in 1..NumScanDocs |->
                    DocumentOps(PostPath(i), "posts",
                                [QueryDataOf(i) EXCEPT !.title = titles[i]])]))

ScanSorts == {Unset, <<"title">>, <<"rank">>, <<"byDraftRank">>}

ScanRequests ==
    { [collection |-> "posts", sort |-> sort, filterChain |-> <<>>, first |-> first,
       last |-> Unset, after |-> Unset, before |-> Unset] :
        sort \in ScanSorts, first \in {Unset, <<UNLIMITED>>} }

InitScan ==
    /\ bridge = EmptyBridge
    /\ level \in {ScanStore(titles) : titles \in [1..NumScanDocs -> ScanTitles]}
    /\ pc = "query"
    /\ cur \in {[op |-> "query", queryOptions |-> q, failing |-> {}] : q \in ScanRequests}
    /\ operations = <<>>
    /\ events = <<>>
    /\ last = NoCall
    /\ trail = <<>>
    /\ notFoundThrows \in BOOLEAN
    /\ faults = 0
    /\ runs = 0
    /\ memo = NoMemo

NextScan == Query

SpecScan == InitScan /\ [][NextScan]_vars

\* a query with an empty filter chain, no cursors and limit -1 has returned
FullScanReturned ==
    /\ pc = "idle" /\ last.op = "query"
    /\ last.args.filterChain = <<>>
    /\ last.args.after = Unset /\ last.args.before = Unset
    /\ last.args.first = <<UNLIMITED>> /\ last.args.last = Unset

\* the keys the iterator of a query without filter yields
VisitedKeys(lv, queryOptions) ==
    SeqToSet(Iterator(lv, QuerySublevel(queryOptions),
                      QueryBounds(queryOptions, NoSuffixes)))

\* the fields of the index a query scans
ScanFields(queryOptions) ==
    LET sort == IF queryOptions.sort = Unset THEN DEFAULT_COLLECTION_SORT_KEY
                ELSE queryOptions.sort[1]
    IN  DefinitionOfSort(getIndexDefinitions[queryOptions.collection], sort)[1].fields

\* every key in the set that decodes is the key of an edge of the result
DecodableKeysAreEdges(keys) ==
    \A key \in keys :
      MatchGroups(key, Len(ScanFields(last.args))) # <<>>
      => \E i \in 1..Len(last.result.edges) : atob(last.result.edges[i].cursor) = key

\* C29: a query with an empty filter chain, no cursors and limit -1 visits every
\* entry of the sublevel it scans, whatever character a key begins with: the
\* bounds '' and '\xFF' exclude no stored key, and the entries are its edges.
C29_FullScanVisitsEveryEntry ==
    FullScanReturned
    => /\ last.status = "ok"
       /\ VisitedKeys(level, last.args) = SublevelKeys(level, QuerySublevel(last.args))
       /\ DecodableKeysAreEdges(SublevelKeys(level, QuerySublevel(last.args)))

\* the same of the stores none of whose keys begins above \xFF, which the code
\* keeps
C29_KeysBelowMaxByte ==
    ( /\ FullScanReturned
      /\ \A key \in SublevelKeys(level, QuerySublevel(last.args)) :
           Head(key) # ABOVE_MAX_BYTE )
    => /\ last.status = "ok"
       /\ VisitedKeys(level, last.args) = SublevelKeys(level, QuerySublevel(last.args))
       /\ DecodableKeysAreEdges(SublevelKeys(level, QuerySublevel(last.args)))

-----------------------------------------------------------------------------
(* Decoding of the keys of an index during a scan.                         *)

RECURSIVE Components(_)
\* key.split(separator): the components of a key, empty ones included
Components(key) ==
    IF \A p \in 1..Len(key) : key[p] # INDEX_KEY_FIELD_SEPARATOR THEN <<key>>
    ELSE LET p == CHOOSE q \in 1..Len(key) :
                    /\ key[q] = INDEX_KEY_FIELD_SEPARATOR
                    /\ \A r \in 1..(q - 1) : key[r] # INDEX_KEY_FIELD_SEPARATOR
         IN  <<SubSeq(key, 1, p - 1)>> \o Components(SubSeq(key, p + 1, Len(key)))

\* a query without filter, and with a limit no store reaches, has returned
\* its page
ScanReturned ==
    /\ pc = "idle" /\ last.op = "query" /\ last.status = "ok"
    /\ last.args.filterChain = <<>>

\* the entry of a key was decoded: it is an edge of the page
DecodedAs(key, filepath) ==
    \E i \in 1..Len(last.result.edges) :
      /\ atob(last.result.edges[i].cursor) = key
      /\ last.result.edges[i].node = hydrator(filepath)

Decoded(key) ==
    \E i \in 1..Len(last.result.edges) : atob(last.result.edges[i].cursor) = key

KeyDecodedByArity(key) ==
    LET components == Components(key)
        arity == Len(ScanFields(last.args)) + 1
    IN  /\ Decoded(key) <=> Len(components) = arity
        /\ Len(components) = arity => DecodedAs(key, components[Len(components)])

\* C30: an entry the iterator yields is skipped at decoding if and only if the
\* number of the separator-delimited components of its key is not the field
\* count of the definition plus one; a key of that arity is decoded, an empty
\* field component included, with the last component as its path, and a key of
\* more components is never decoded.
C30_DecodedIffArityMatches ==
    ScanReturned
    => \A key \in VisitedKeys(level, last.args) : KeyDecodedByArity(key)

\* the same of the keys whose components are as many as the definition has
\* fields, plus one, and none of them empty, which the code keeps
C30_PlainKeys ==
    ScanReturned
    => \A key \in VisitedKeys(level, last.args) :
         ( /\ Len(Components(key)) = Len(ScanFields(last.args)) + 1
           /\ \A i \in 1..Len(Components(key)) : Components(key)[i] # <<>> )
         => KeyDecodedByArity(key)

-----------------------------------------------------------------------------
(* The padding of the number fields of the index definitions.              *)

DefaultNumericPad == [fillString |-> "0", maxLength |-> DEFAULT_NUMERIC_LPAD]

\* getIndexDefinitions has returned its table
IndexDefinitionsReturned ==
    pc = "idle" /\ last.op = "getIndexDefinitions" /\ last.status = "ok"

\* the definitions of the returned table, of every collection
ReturnedDefinitions ==
    UNION { {last.result[name][d] : d \in 1..Len(last.result[name])} :
              name \in DOMAIN last.result }

\* a document for the fields of a definition, with a number n in its number fields
SampleData(definition, n) ==
    [name \in {definition.fields[i].name : i \in 1..Len(definition.fields)} |->
        LET type == definition.fields[IndexOfField(definition.fields, name)].type
        IN  IF type = "number" THEN n
            ELSE IF type = "boolean" THEN FALSE
            ELSE <<"A">>]

NumbersPadded(definition) ==
    \A i \in 1..Len(definition.fields) :
      definition.fields[i].type = "number" => definition.fields[i].pad = DefaultNumericPad

\* the key of 9 sorts below the key of 10
NumericOrderKept(definition) ==
    (\E i \in 1..Len(definition.fields) : definition.fields[i].type = "number")
    => KeyLess(makeKeyForField(definition, SampleData(definition, 9)),
               makeKeyForField(definition, SampleData(definition, 10)))

\* C31: every number-typed field of every index definition getIndexDefinitions
\* produces carries the default numeric padding, in the user-declared composite
\* indexes as in the single-column ones, so that the keys of an index sort by
\* the numeric order of the field.
C31_NumberFieldsPadded ==
    IndexDefinitionsReturned
    => \A definition \in ReturnedDefinitions :
         NumbersPadded(definition) /\ NumericOrderKept(definition)

\* the same of the single-column indexes, which the code keeps
C31_SingleColumnPadded ==
    IndexDefinitionsReturned
    => \A definition \in ReturnedDefinitions :
         Len(definition.fields) = 1
         => NumbersPadded(definition) /\ NumericOrderKept(definition)

=============================================================================
